---- MODULE Spec2Model ----
(***************************************************************************)
(* Model of the mercure spool pipeline: the study aggregator               *)
(* (routing/route_studies.py), the processor (process/process_series.py)   *)
(* and the restart administration (webinterface/queue.py).                 *)
(*                                                                         *)
(* A folder is a set of file names plus the content of its task.json.      *)
(* Nine specifications share the module:                                  *)
(*   Spec      the study aggregator scanning studies/                      *)
(*   SpecProc  the processor running the module pipeline of its units      *)
(*   SpecLock  route_patient and push_studylevel_patient, step by step     *)
(*   SpecPipe  the stages one unit passes through                          *)
(*   SpecJob   the restart and delete requests on the folders of one job   *)
(*   SpecMove  a processing folder being populated, next to the processor  *)
(*   SpecRouter  route_studies and route_patients in the router's loop     *)
(*   SpecQuery  the task list of the bookkeeper (bookkeeping/query.py)     *)
(*   SpecCache  the LRUCache of the web interface (webinterface/api.py)    *)
(* Each specification moves its own variables and leaves the others alone. *)
(***************************************************************************)
EXTENDS Integers, Sequences, FiniteSets, TLC

VARIABLES
    now,        \* wall clock (datetime.now()), in seconds
    studies,    \* studies/<folder>: files and task.json content
    incoming,   \* incoming/<series uid>: the pending series
    patients,   \* patients/<MRN>_<rule>
    spool,      \* folders created in processing/ outgoing/ success/ error/ discard/
    last        \* the last operation and what it observed (history)

studyVars == <<now, studies, incoming, patients, spool, last>>

VARIABLES
    clock,                  \* the processor's wall clock, in ticks of TickSeconds
    processing,             \* processing/<unit>: the folders the processor scans
    docker_pull_throttle,   \* image tag -> time of the last update check
    pulls,                  \* image tag -> times at which a registry pull was initiated
    results,                \* per unit: what process_series did and where it left the unit
    runs                    \* per unit: the docker_runtime calls of its pipeline (history)

procVars == <<clock, processing, docker_pull_throttle, pulls, results, runs>>

VARIABLES
    pfolder,    \* patients/<MRN>_<rule>: does it exist, and its entries
    pdest,      \* the studies that reached the patient's destination folder
    pcRoute,    \* where the patient aggregator is in route_patient
    pcPush,     \* where the study aggregator is in push_studylevel_patient
    outcome,    \* per study: waiting, pushed to the patient, or sent to error/
    lost        \* studies deleted with the patient folder before reaching a destination

lockVars == <<pfolder, pdest, pcRoute, pcPush, outcome, lost>>

VARIABLES
    uplaces,    \* the spool folders that hold the unit (or a copy of it)
    utask,      \* the unit's task file, its snapshot and the rule configured for it
    umove,      \* the last move of the unit: from, to, operation (history)
    restarts    \* the number of restart requests made

pipeVars == <<uplaces, utask, umove, restarts>>

VARIABLES
    jobs,       \* stage -> the folder <stage>/<id> of one job
    jdb,        \* the bookkeeper holds a record of the job
    jlast       \* the last request, what it found and what it answered (history)

jobVars == <<jobs, jdb, jlast>>

VARIABLES
    mpc,        \* the populating operation and the statement it is at
    msrc,       \* its source folder
    mdst,       \* processing/<id>
    mpicked     \* what the processor found when it picked the folder up (history)

moveVars == <<mpc, msrc, mdst, mpicked>>

VARIABLES
    rnow,       \* the router's wall clock, in seconds
    rstudies,   \* studies/<folder>
    rpatients,  \* patients/<MRN>_<rule>: entries and task.json content
    rspool,     \* folders created in processing/ outgoing/ success/ error/ discard/
    rlast       \* the last scan and what it observed (history)

routerVars == <<rnow, rstudies, rpatients, rspool, rlast>>

VARIABLES
    qtasks,     \* the rows of the bookkeeper's tasks table
    qview       \* the last task list returned by find_task (history)

queryVars == <<qtasks, qview>>

VARIABLES
    ctime,      \* time.time() as the cache's threads read it, in seconds
    cache,      \* LRUCache.cache: the OrderedDict, oldest position first
    cuses,      \* per key: the last set (value, time); and the keys in order of last use (history)
    clast       \* the last call on the cache, what it found and what it returned (history)

cacheVars == <<ctime, cache, cuses, clast>>

\* what each component leaves alone
nonStudyVars ==
    <<procVars, lockVars, pipeVars, jobVars, moveVars,
      routerVars, queryVars, cacheVars>>
nonProcVars ==
    <<studyVars, lockVars, pipeVars, jobVars, moveVars,
      routerVars, queryVars, cacheVars>>
nonLockVars ==
    <<studyVars, procVars, pipeVars, jobVars, moveVars,
      routerVars, queryVars, cacheVars>>
nonPipeVars ==
    <<studyVars, procVars, lockVars, jobVars, moveVars,
      routerVars, queryVars, cacheVars>>
nonJobVars ==
    <<studyVars, procVars, lockVars, pipeVars, moveVars,
      routerVars, queryVars, cacheVars>>
nonMoveVars ==
    <<studyVars, procVars, lockVars, pipeVars, jobVars,
      routerVars, queryVars, cacheVars>>
nonRouterVars ==
    <<studyVars, procVars, lockVars, pipeVars, jobVars,
      moveVars, queryVars, cacheVars>>
nonQueryVars ==
    <<studyVars, procVars, lockVars, pipeVars, jobVars,
      moveVars, routerVars, cacheVars>>
nonCacheVars ==
    <<studyVars, procVars, lockVars, pipeVars, jobVars,
      moveVars, routerVars, queryVars>>
------------------------------------------------------------------------------
(* Bounds and configuration *)

MaxTime == 4
study_complete_trigger == 1
study_forcecomplete_trigger == 2
MaxPatientStudies == 2

StudyNames == {"s1", "s2"}
SeriesUIDs == {"x1"}
StudyUIDs == {"U1", "U2"}
DcmFiles == {"a.dcm", "b.dcm"}
NoTime == 0 - 1

\* mercure_names: the marker files of a unit folder
LOCK == ".lock"
NAMEDLOCK == "name.lock"        \* <folder>/<folder>.lock
PROCESSING == ".processing"
FORCE_COMPLETE == ".complete_force"
TASKFILE == "task.json"
\* the tag sidecar the receiver writes next to a DICOM file
TAGS == "a.tags"

\* config.mercure.rules: applied_rule -> action_trigger
rules == [rP |-> "patient", rS |-> "study"]

\* what a scan's file operations may meet: a destination that cannot be created,
\* files whose move raises
ScanEnvs ==
    {[mkdirFail |-> FALSE, failed |-> {}], [mkdirFail |-> TRUE, failed |-> {}],
     [mkdirFail |-> FALSE, failed |-> {"a.dcm"}],
     [mkdirFail |-> FALSE, failed |-> {"task.json"}]}

------------------------------------------------------------------------------
(* Folders and task files *)

NoStudyTask ==
    [id |-> "none", action |-> "", applied_rule |-> "", mrn |-> "",
     study_uid |-> "", creation_time |-> NoTime, last_receive_time |-> NoTime,
     complete_trigger |-> "", required |-> {}, complete_force |-> FALSE,
     complete_force_action |-> "", received_series |-> <<>>]

NoFolder == [exists |-> FALSE, files |-> {}, task |-> NoStudyTask]

NoPatientTask == [id |-> "none", studies |-> <<>>]

NoPatient ==
    [exists |-> FALSE, files |-> {}, task |-> NoPatientTask,
     sub |-> [u \in StudyUIDs |-> {}]]

\* str.endswith(mercure_names.LOCK)
EndsWithLock(f) == f \in {LOCK, NAMEDLOCK}

SeqToSet(q) == {q[i] : i \in 1..Len(q)}

\* rule_evaluation.parse_completion_series: the received descriptions satisfy
\* the required expression (here a conjunction of descriptions)
parse_completion_series(required, received) == required \subseteq SeqToSet(received)

------------------------------------------------------------------------------
(* Completion of a study *)

\* a plausible slip: only the lock file is looked at
is_study_locked_LockOnly(f) == LOCK \in f.files

is_study_locked(f) ==
    \/ LOCK \in f.files
    \/ PROCESSING \in f.files
    \/ f.files \cap DcmFiles = {}

\* a plausible slip: the timeout alone decides, pending series are not looked at
check_study_timeout_IgnoresPending(task, pending, inc, t) ==
    IF task.last_receive_time = NoTime THEN FALSE
    ELSE t > task.last_receive_time + study_complete_trigger

\* a pending series without a tags file raises StopIteration, which
\* is_study_complete turns into False
check_study_timeout(task, pending, inc, t) ==
    IF task.last_receive_time = NoTime THEN FALSE
    ELSE IF t > task.last_receive_time + study_complete_trigger
         THEN /\ \A s \in pending : inc[s].tags
              /\ \A s \in pending : inc[s].study_uid # task.study_uid
         ELSE FALSE

check_study_series(task, required_series) ==
    parse_completion_series(required_series, task.received_series)

\* a plausible slip: no switch to timeout mode when the series list is missing
EffectiveTrigger_NoFallback(task) == task.complete_trigger

\* the trigger is_study_complete evaluates
EffectiveTrigger(task) ==
    IF task.complete_trigger = "received_series" /\ task.required = {}
    THEN "timeout" ELSE task.complete_trigger

\* a plausible slip: the missing-trigger check runs before the force checks
is_study_complete_TriggerFirst(f, pending, inc, t) ==
    IF TASKFILE \notin f.files THEN FALSE
    ELSE IF f.task.complete_trigger = "" THEN FALSE
    ELSE IF EffectiveTrigger(f.task) = "received_series"
         THEN check_study_series(f.task, f.task.required)
    ELSE IF f.task.complete_force \/ FORCE_COMPLETE \in f.files THEN TRUE
    ELSE IF EffectiveTrigger(f.task) = "timeout"
         THEN check_study_timeout(f.task, pending, inc, t)
    ELSE FALSE

is_study_complete(f, pending, inc, t) ==
    IF TASKFILE \notin f.files THEN FALSE
    ELSE IF f.task.complete_force THEN TRUE
    ELSE IF FORCE_COMPLETE \in f.files THEN TRUE
    ELSE IF f.task.complete_trigger = "" THEN FALSE
    ELSE IF EffectiveTrigger(f.task) = "timeout"
         THEN check_study_timeout(f.task, pending, inc, t)
    ELSE IF EffectiveTrigger(f.task) = "received_series"
         THEN check_study_series(f.task, f.task.required)
    ELSE FALSE

\* is_study_complete persists complete_force when it finds the marker
PersistForce(f) ==
    IF TASKFILE \in f.files /\ ~f.task.complete_force /\ FORCE_COMPLETE \in f.files
    THEN [f EXCEPT !.task.complete_force = TRUE]
    ELSE f

------------------------------------------------------------------------------
(* Moving a study folder.  fs = [studies, patients, spool];                  *)
(* env = [mkdirFail, failed]: what the file system refuses in this scan.     *)

Stages == {"processing", "outgoing", "success", "error", "discard"}

\* move_study_folder's destination argument -> spool folder
DestinationFolder(destination) ==
    CASE destination = "PROCESSING" -> "processing"
      [] destination = "SUCCESS" -> "success"
      [] destination = "ERROR" -> "error"
      [] destination = "OUTGOING" -> "outgoing"
      [] destination = "DISCARD" -> "discard"
      [] OTHER -> "unknown"

\* str(uuid.uuid1()): a fresh name, one per source folder
UuidName(study) == IF study = "s1" THEN "uuid1" ELSE "uuid2"

\* the name of the folder created in the destination
DestinationName(task_id, study) ==
    IF task_id = "None" THEN UuidName(study) ELSE task_id

FolderAt(sp, stage, name) == {r \in sp : r.stage = stage /\ r.name = name}

\* the files move_study_folder moves: all but lock files and those whose
\* shutil.move raises
MovedFiles(files, env) == {f \in files : ~EndsWithLock(f)} \ env.failed

move_study_folder(fs, task_id, study, destination, env) ==
    LET stage == DestinationFolder(destination)
        name == DestinationName(task_id, study)
        src == fs.studies[study]
        moved == MovedFiles(src.files, env)
    IN  IF stage = "unknown" THEN [fs |-> fs, ok |-> FALSE]
        ELSE IF env.mkdirFail \/ FolderAt(fs.spool, stage, name) # {}
        THEN [fs |-> fs, ok |-> FALSE]
        ELSE [fs |-> [fs EXCEPT
                        !.studies[study].files = src.files \ moved,
                        !.spool = @ \cup {[stage |-> stage, name |-> name,
                                           src |-> study, files |-> moved,
                                           task |-> IF TASKFILE \in moved
                                                    THEN src.task
                                                    ELSE NoStudyTask]}],
              ok |-> TRUE]

\* lock.free() and shutil.rmtree(study_folder)
remove_study_folder(fs, study) ==
    [fs |-> [fs EXCEPT !.studies[study] = NoFolder], ok |-> TRUE]

\* a FileLock is released when the function holding it returns
ReleaseLock(fs, study, lockname) ==
    [fs EXCEPT !.studies[study].files = @ \ {lockname}]

\* a plausible slip: the dispatch push hands the study to the processor
push_studylevel_dispatch_ToProcessing(fs, study, task, env) ==
    move_study_folder(fs, task.id, study, "PROCESSING", env)

push_studylevel_dispatch(fs, study, task, env) ==
    move_study_folder(fs, task.id, study, "OUTGOING", env)

push_studylevel_processing(fs, study, task, env) ==
    move_study_folder(fs, task.id, study, "PROCESSING", env)

\* the result of move_study_folder is dropped
push_studylevel_notification(fs, study, task, env) ==
    [fs |-> move_study_folder(fs, task.id, study, "SUCCESS", env).fs, ok |-> TRUE]

------------------------------------------------------------------------------
(* Routing a complete study *)

PatientNames == {"m1_rP"}

\* f"{patient_id}_{applied_rule}"
PatientFolderName(patient_id, applied_rule) == "m1_rP"

\* generate_task_id() for a new patient task
NewPatientTaskId == "tP"

\* generate_taskfile.create_patient_task: a patient task without studies
create_patient_task(new_task_id) == [id |-> new_task_id, studies |-> <<>>]

\* generate_taskfile.update_patient_task: the study is appended to received_studies
update_patient_task(ptask, study_uid) ==
    [ptask EXCEPT !.studies = Append(@, study_uid)]

\* a plausible slip: the study's task file is moved along with its images
PatientMovedFiles_WithTask(files, env) ==
    {f \in files : ~EndsWithLock(f)} \ env.failed

\* the files push_studylevel_patient moves into the study subfolder
PatientMovedFiles(files, env) ==
    {f \in files : ~EndsWithLock(f) /\ f # TASKFILE} \ env.failed

push_studylevel_patient(fs, study, task, env) ==
    LET pname == PatientFolderName(task.mrn, task.applied_rule)
        p0 == fs.patients[pname]
        first_study == ~p0.exists
        p1 == IF first_study THEN [NoPatient EXCEPT !.exists = TRUE] ELSE p0
        created == [fs EXCEPT !.patients[pname] = p1]
        p2 == [p1 EXCEPT !.files = @ \cup {TASKFILE},
                         !.task = update_patient_task(
                                      IF first_study
                                      THEN create_patient_task(NewPatientTaskId)
                                      ELSE p1.task,
                                      task.study_uid)]
        updated == [fs EXCEPT !.patients[pname] = p2]
        moved == PatientMovedFiles(fs.studies[study].files, env)
    IN  IF task.mrn \in {"", "MISSING"} THEN [fs |-> fs, ok |-> FALSE]
        ELSE IF task.applied_rule = "" THEN [fs |-> fs, ok |-> FALSE]
        ELSE IF fs.studies[study].files \cap DcmFiles = {} \/ TAGS \notin fs.studies[study].files
        THEN [fs |-> fs, ok |-> FALSE]
        ELSE IF first_study /\ env.mkdirFail THEN [fs |-> fs, ok |-> FALSE]
        ELSE IF LOCK \in p1.files THEN [fs |-> created, ok |-> FALSE]
        ELSE IF ~first_study /\ TASKFILE \notin p1.files THEN [fs |-> fs, ok |-> FALSE]
        ELSE IF env.mkdirFail THEN [fs |-> updated, ok |-> FALSE]
        ELSE [fs |-> [updated EXCEPT
                        !.patients[pname].sub[task.study_uid] = @ \cup moved,
                        !.studies[study].files = @ \ moved],
              ok |-> TRUE]

route_study(fs, study, env) ==
    LET f == fs.studies[study]
        task == f.task
        locked == [fs EXCEPT !.studies[study].files = @ \cup {NAMEDLOCK}]
        fail(g) == [fs |-> ReleaseLock(g, study, NAMEDLOCK), ok |-> FALSE]
        done(r) == IF r.ok THEN remove_study_folder(r.fs, study) ELSE fail(r.fs)
    IN  IF is_study_locked(f) THEN [fs |-> fs, ok |-> TRUE]
        ELSE IF NAMEDLOCK \in f.files THEN [fs |-> fs, ok |-> TRUE]
        ELSE IF TASKFILE \notin f.files THEN fail(locked)
        ELSE IF task.action = "" THEN fail(locked)
        ELSE IF /\ task.applied_rule \in DOMAIN rules
                /\ rules[task.applied_rule] = "patient"
             THEN done(push_studylevel_patient(locked, study, task, env))
        ELSE IF task.action = "notification"
             THEN done(push_studylevel_notification(locked, study, task, env))
        ELSE IF task.action = "route"
             THEN done(push_studylevel_dispatch(locked, study, task, env))
        ELSE IF task.action \in {"process", "both"}
             THEN done(push_studylevel_processing(locked, study, task, env))
        ELSE fail(locked)

push_studylevel_error(fs, study, env) ==
    LET locked == [fs EXCEPT !.studies[study].files = @ \cup {NAMEDLOCK}]
        r == move_study_folder(locked, "None", study, "ERROR", env)
    IN  IF NAMEDLOCK \in fs.studies[study].files THEN fs
        ELSE IF r.ok THEN remove_study_folder(r.fs, study).fs
        ELSE ReleaseLock(r.fs, study, NAMEDLOCK)

\* a plausible slip: an unset complete_force_action defaults to proceed
EffectiveForceAction_DefaultProceed(action) == IF action \in {"", "ignore"} THEN "proceed" ELSE action

\* a plausible slip: only proceed is acted upon
EffectiveForceAction_OnlyProceed(action) == IF action = "proceed" THEN action ELSE "ignore"

\* not study.complete_force_action or study.complete_force_action == "ignore"
EffectiveForceAction(action) == IF action = "" THEN "ignore" ELSE action

check_force_study_timeout(fs, study, t, env) ==
    LET f == fs.studies[study]
        force_action == EffectiveForceAction(f.task.complete_force_action)
        locked == [fs EXCEPT !.studies[study].files = @ \cup {LOCK}]
        r == move_study_folder(locked, f.task.id, study, "DISCARD", env)
    IN  IF TASKFILE \notin f.files THEN [fs |-> fs, ok |-> FALSE]
        ELSE IF f.task.creation_time = NoTime THEN [fs |-> fs, ok |-> FALSE]
        ELSE IF t > f.task.creation_time + study_forcecomplete_trigger
        THEN IF force_action = "ignore"
             THEN [fs |-> fs, ok |-> TRUE]
             ELSE IF force_action = "proceed"
             THEN [fs |-> [fs EXCEPT !.studies[study].files = @ \cup {FORCE_COMPLETE}],
                   ok |-> TRUE]
             ELSE IF force_action = "discard"
             THEN IF LOCK \in f.files THEN [fs |-> fs, ok |-> FALSE]
                  ELSE IF r.ok THEN remove_study_folder(r.fs, study)
                  ELSE [fs |-> ReleaseLock(r.fs, study, LOCK), ok |-> FALSE]
             ELSE [fs |-> fs, ok |-> TRUE]
        ELSE [fs |-> fs, ok |-> TRUE]

\* sorted(studies_ready)
StudyOrder == <<"s1", "s2">>

\* the scan of route_studies: the studies found complete
StudiesReady(fs, pending, inc, t) ==
    {s \in StudyNames : /\ fs.studies[s].exists
                        /\ ~is_study_locked(fs.studies[s])
                        /\ is_study_complete(fs.studies[s], pending, inc, t)}

RECURSIVE ScanFrom(_, _, _, _, _, _)
ScanFrom(fs, i, pending, inc, t, env) ==
    IF i > Len(StudyOrder) THEN fs
    ELSE LET s == StudyOrder[i]
             f == fs.studies[s]
             next == IF ~f.exists \/ is_study_locked(f) THEN fs
                     ELSE IF is_study_complete(f, pending, inc, t)
                     THEN [fs EXCEPT !.studies[s] = PersistForce(f)]
                     ELSE check_force_study_timeout(fs, s, t, env).fs
         IN  ScanFrom(next, i + 1, pending, inc, t, env)

\* a plausible slip: the termination flag is not looked at
StopAfter_Never(terminated) == FALSE

\* helper.is_terminated() after a unit has been routed
StopAfter(terminated) == terminated

RECURSIVE RouteFrom(_, _, _, _, _)
RouteFrom(fs, i, ready, env, terminated) ==
    IF i > Len(StudyOrder) THEN fs
    ELSE LET s == StudyOrder[i]
             r == route_study(fs, s, env)
             next == IF r.ok THEN r.fs ELSE push_studylevel_error(r.fs, s, env)
         IN  IF s \notin ready THEN RouteFrom(fs, i + 1, ready, env, terminated)
             ELSE IF StopAfter(terminated) THEN next
             ELSE RouteFrom(next, i + 1, ready, env, terminated)

route_studies(fs, pending, inc, t, env, terminated) ==
    RouteFrom(ScanFrom(fs, 1, pending, inc, t, env), 1,
              StudiesReady(fs, pending, inc, t), env, terminated)

------------------------------------------------------------------------------
(* The study aggregator as a state machine *)

StudyTask(id, uid, trigger, required, force_action, action, rule) ==
    [id |-> id, action |-> action, applied_rule |-> rule, mrn |-> "m1",
     study_uid |-> uid, creation_time |-> 0, last_receive_time |-> 0,
     complete_trigger |-> trigger, required |-> required, complete_force |-> FALSE,
     complete_force_action |-> force_action, received_series |-> <<"T0">>]

\* (complete_trigger, complete_required_series) of the task files in studies/
TriggerConfigs ==
    {<<"timeout", {}>>, <<"received_series", {}>>, <<"received_series", {"T1"}>>,
     <<"", {}>>}

\* (info.action, info.applied_rule)
ActionConfigs ==
    {<<a, "rS">> : a \in {"route", "process", "both", "notification", "discard"}}
        \cup {<<"route", "rP">>}

ForceActions == {"", "ignore", "proceed", "discard"}

StudyFolder(task) ==
    [exists |-> TRUE, files |-> {"a.dcm", TAGS, TASKFILE}, task |-> task]

NoSeries == [present |-> FALSE, study_uid |-> "", tags |-> FALSE]

SeriesStates ==
    {NoSeries} \cup
    {[present |-> TRUE, study_uid |-> u, tags |-> tg] : u \in StudyUIDs, tg \in BOOLEAN}

NoLast ==
    [op |-> "init", pre |-> [s \in StudyNames |-> NoFolder],
     complete |-> [s \in StudyNames |-> FALSE], handled |-> {},
     env |-> [mkdirFail |-> FALSE, failed |-> {}],
     patients |-> [p \in PatientNames |-> NoPatient]]

ExistingPatient(files) ==
    [NoPatient EXCEPT !.exists = TRUE, !.files = files,
                      !.task = [id |-> "tQ", studies |-> <<"U2">>],
                      !.sub = [u \in StudyUIDs |-> IF u = "U2" THEN {"c.dcm"} ELSE {}]]

\* patients/m1_rP when the scan starts: absent, waiting, or held by another component
PatientStates == {NoPatient, ExistingPatient({TASKFILE}), ExistingPatient({TASKFILE, LOCK})}

\* a second study folder, to have two folders in one scan
SecondStudy == StudyFolder(StudyTask("t2", "U2", "timeout", {}, "", "route", "rS"))

\* a second study: ready to be scanned, or owned by another process (.lock,
\* .processing), or still without a DICOM file
SecondStudies ==
    {NoFolder, SecondStudy,
     [StudyFolder(StudyTask("t2", "U2", "timeout", {}, "discard", "route", "rS"))
        EXCEPT !.files = @ \cup {LOCK}],
     [SecondStudy EXCEPT !.files = @ \cup {PROCESSING}],
     [SecondStudy EXCEPT !.files = @ \ DcmFiles]}

StudyInit ==
    /\ now = 0
    /\ \E tc \in TriggerConfigs, ac \in ActionConfigs, fa \in ForceActions,
          second \in SecondStudies :
         /\ second.exists => (tc[1] = "timeout" /\ fa = "" /\ ac[1] \in {"route", "discard"})
         /\ studies = [s \in StudyNames |->
                         IF s = "s1"
                         THEN StudyFolder(StudyTask("t1", "U1", tc[1], tc[2], fa, ac[1], ac[2]))
                         ELSE second]
    /\ incoming \in [SeriesUIDs -> SeriesStates]
    /\ patients \in [PatientNames -> PatientStates]
    /\ (studies["s1"].task.applied_rule # "rP" => patients["m1_rP"] = NoPatient)
    /\ spool = {}
    /\ last = NoLast

Note(op) == [NoLast EXCEPT !.op = op]

\* datetime.now() advances
Tick ==
    /\ now < MaxTime
    /\ now' = now + 1
    /\ last' = Note("env")
    /\ UNCHANGED <<studies, incoming, patients, spool>>
    /\ UNCHANGED nonStudyVars

\* the series router appends a pending series to its study folder
SeriesJoin ==
    \E x \in SeriesUIDs, s \in StudyNames :
        /\ incoming[x].present /\ incoming[x].tags
        /\ studies[s].exists /\ TASKFILE \in studies[s].files
        /\ LOCK \notin studies[s].files
        /\ studies[s].task.study_uid = incoming[x].study_uid
        /\ incoming' = [incoming EXCEPT ![x] = NoSeries]
        /\ studies' = [studies EXCEPT
                         ![s].files = @ \cup {"b.dcm"},
                         ![s].task.last_receive_time = now,
                         ![s].task.received_series = Append(@, "T1")]
        /\ last' = Note("env")
        /\ UNCHANGED <<now, patients, spool>>
        /\ UNCHANGED nonStudyVars

\* the series leaves incoming/ for another place
SeriesLeave ==
    \E x \in SeriesUIDs :
        /\ incoming[x].present
        /\ incoming' = [incoming EXCEPT ![x] = NoSeries]
        /\ last' = Note("env")
        /\ UNCHANGED <<now, studies, patients, spool>>
        /\ UNCHANGED nonStudyVars

force_study_complete ==
    \E s \in StudyNames :
        /\ studies[s].exists /\ TASKFILE \in studies[s].files
        /\ FORCE_COMPLETE \notin studies[s].files
        /\ studies' = [studies EXCEPT ![s].files = @ \cup {FORCE_COMPLETE}]
        /\ last' = Note("env")
        /\ UNCHANGED <<now, incoming, patients, spool>>
        /\ UNCHANGED nonStudyVars

\* the pending_series argument: the series still in incoming/
Pending == {x \in SeriesUIDs : incoming[x].present}

\* the studies route_studies calls route_study on
Handled(ready, terminated) ==
    IF terminated /\ ready # {}
    THEN {CHOOSE s \in ready :
            \A i, j \in 1..Len(StudyOrder) :
                (StudyOrder[i] = s /\ StudyOrder[j] \in ready) => i <= j}
    ELSE ready

RouteStudies ==
    \E env \in ScanEnvs, terminated \in BOOLEAN :
        LET fs == [studies |-> studies, patients |-> patients, spool |-> spool]
            r == route_studies(fs, Pending, incoming, now, env, terminated)
        IN  /\ terminated => Cardinality(StudiesReady(fs, Pending, incoming, now)) > 1
            /\ \A p \in PatientNames : Len(r.patients[p].task.studies) <= MaxPatientStudies
            /\ studies' = r.studies
            /\ patients' = r.patients
            /\ spool' = r.spool
            /\ last' = [op |-> "route_studies", pre |-> studies,
                        complete |-> [s \in StudyNames |->
                                        is_study_complete(studies[s], Pending, incoming, now)],
                        handled |-> Handled(StudiesReady(fs, Pending, incoming, now),
                                            terminated),
                        env |-> env, patients |-> patients]
            /\ UNCHANGED <<now, incoming>>
            /\ UNCHANGED nonStudyVars

StudyNext ==
    \/ Tick
    \/ SeriesJoin
    \/ SeriesLeave
    \/ force_study_complete
    \/ RouteStudies

------------------------------------------------------------------------------
(* The processor: process/process_series.py, process/status.py *)

TickSeconds == 1800
MaxClock == 3
PullThrottleSeconds == 3600

UnitIds == {"u1", "u2"}
ImageTags == {"imgA", "imgB"}

\* the helper image that chowns out/, the key its pull time is looked up under and
\* the key its pull time is stored under
HelperImage == "busybox:stable-musl"
HelperThrottleRead == "busybox:stable-musl"
HelperThrottleWritten == "busybox:stable_musl"
HelperPullSeconds == 86400

ThrottleKeys == ImageTags \cup {HelperThrottleRead, HelperThrottleWritten}
PulledImages == ImageTags \cup {HelperImage}

Seconds(t) == t * TickSeconds

\* task.process entries: a TaskProcessing with its module_config
ModuleA ==
    [module_name |-> "mA", docker_tag |-> "imgA", require_signature |-> FALSE,
     cert_configured |-> FALSE, requires_root |-> FALSE, requires_persistence |-> TRUE]

ModuleB ==
    [module_name |-> "mB", docker_tag |-> "imgA", require_signature |-> TRUE,
     cert_configured |-> TRUE, requires_root |-> FALSE, requires_persistence |-> TRUE]

ModuleC ==
    [module_name |-> "mC", docker_tag |-> "imgB", require_signature |-> TRUE,
     cert_configured |-> FALSE, requires_root |-> TRUE, requires_persistence |-> FALSE]

\* what one docker_runtime call meets: the manifest probe, the registry pull, the
\* signature verifier, config.mercure.support_root_modules, the module container,
\* the result.json the module leaves in out/, the ticks the module runs for
RunEnv(probe, pull, verify, root, run, result, duration) ==
    [probe |-> probe, pull |-> pull, verify |-> verify, support_root_modules |-> root,
     run |-> run, result |-> result, duration |-> duration]

RunEnvs ==
    {RunEnv("plain", "ok", "pass", TRUE, "exit0", "valid", 1),
     RunEnv("plain", "apierror", "pass", TRUE, "exit0", "none", 0),
     RunEnv("monai", "notfound", "pass", TRUE, "exit0", "invalid", 0),
     RunEnv("monai", "ok", "pass", FALSE, "exit0", "valid", 0),
     RunEnv("plain", "ok", "fail", TRUE, "exit0", "valid", 0),
     RunEnv("plain", "apierror", "error", TRUE, "exit0", "valid", 0),
     RunEnv("plain", "ok", "cosign_missing", TRUE, "exit0", "valid", 0),
     RunEnv("plain", "ok", "pass", TRUE, "exit1", "valid", 1),
     RunEnv("plain", "ok", "pass", TRUE, "apierror", "none", 0),
     RunEnv("plain", "ok", "pass", TRUE, "imagenotfound", "none", 0),
     RunEnv("notfound", "ok", "pass", TRUE, "exit0", "none", 0),
     RunEnv("badmanifest", "ok", "pass", TRUE, "exit0", "none", 0)}

NoTask == [id |-> "Unknown", process |-> <<>>, is_list |-> FALSE, dispatch |-> FALSE]

NoUnit == [exists |-> FALSE, files |-> {}, task |-> NoTask]

NoDir == [exists |-> FALSE, files |-> {}]

EmptyDir == [exists |-> TRUE, files |-> {}]

\* the DICOM files of a patient unit lie in a subfolder per study
SubfolderDcmFiles == {"U1/a.dcm"}

\* path.rglob("*.dcm"): the DICOM files at any level of the folder
rglob_dcm(files) == files \cap (DcmFiles \cup SubfolderDcmFiles)

\* child.is_file(): an entry at the top of the folder that is not a directory
is_file(x) == x \notin SubfolderDcmFiles

\* status.py: a case in processing/ is ready for the processor
is_ready_for_processing(f) ==
    /\ f.exists
    /\ LOCK \notin f.files
    /\ PROCESSING \notin f.files
    /\ rglob_dcm(f.files) # {}

\* verify_container_signature: ok is "true", "false" or "raise"; started tells
\* whether the verifier container was run
verify_container_signature(module, env) ==
    IF ~module.require_signature THEN [ok |-> "true", started |-> FALSE]
    ELSE IF ~module.cert_configured THEN [ok |-> "false", started |-> FALSE]
    ELSE IF env.verify = "pass" THEN [ok |-> "true", started |-> TRUE]
    ELSE IF env.verify = "cosign_missing" THEN [ok |-> "raise", started |-> FALSE]
    ELSE [ok |-> "false", started |-> TRUE]

\* Docker Hub is checked for a new module version only once per hour
perform_image_update(throttle, tag, t) ==
    ~(throttle[tag] # NoTime /\ Seconds(t) - Seconds(throttle[tag]) < PullThrottleSeconds)

\* a plausible slip: the check is remembered only when the pull went through
RecordPull_OnSuccess(throttle, tag, t, pull) ==
    IF pull = "ok" THEN [throttle EXCEPT ![tag] = t] ELSE throttle

\* docker_pull_throttle[docker_tag] = datetime.now(), set before the pull
RecordPull(throttle, tag, t, pull) == [throttle EXCEPT ![tag] = t]

\* (now - docker_pull_throttle.get("busybox:stable-musl", year 1)) > 86400
perform_helper_update(throttle, t) ==
    throttle[HelperThrottleRead] = NoTime
        \/ Seconds(t) - Seconds(throttle[HelperThrottleRead]) > HelperPullSeconds

\* the pull of the helper image after the module container has finished
HelperPull(st) ==
    IF perform_helper_update(st.throttle, st.t)
    THEN [st EXCEPT !.throttle[HelperThrottleWritten] = st.t,
                    !.pulls[HelperImage] = Append(@, [at |-> st.t, outcome |-> "ok"])]
    ELSE st

\* the state a docker_runtime call works on
DockerState(t, throttle, pulled) == [t |-> t, throttle |-> throttle, pulls |-> pulled]

\* docker_runtime for one module: ok is "true", "false" or "raise"; wrote is the
\* result.json the module left; call is the record of the containers it started
docker_runtime(module, env, st) ==
    LET tag == module.docker_tag
        probed == env.probe \in {"plain", "monai", "badmanifest"}
        c1 == IF probed THEN <<"probe">> ELSE <<>>
        monai == env.probe = "monai"
        update == perform_image_update(st.throttle, tag, st.t)
        st2 == IF update
               THEN [st EXCEPT !.throttle = RecordPull(st.throttle, tag, st.t, env.pull),
                               !.pulls = [st.pulls EXCEPT
                                            ![tag] = Append(@, [at |-> st.t, outcome |-> env.pull])]]
               ELSE st
        v == verify_container_signature(module, env)
        c2 == IF v.started THEN Append(c1, "verifier") ELSE c1
        verification == IF ~module.require_signature THEN "not_required"
                        ELSE IF v.ok = "true" THEN "passed" ELSE "failed"
        requires_root == module.requires_root \/ monai
        ran == env.run \in {"exit0", "exit1"}
        \* the containers started without user=<uid>:<gid>: the manifest probe,
        \* and the module when it runs as root
        unmapped(containers) ==
            {x \in SeqToSet(containers) :
                x = "probe" \/ (x = "module" /\ requires_root)}
        \* whether the lock file of this run is in the persistence folder when
        \* docker_runtime is left: kept is a way out after
        \* persistence_lock_file.touch() that does not reach the unlink at the end
        kept == module.requires_persistence
        unlinked == FALSE
        Call(containers, verdict, lock_file) ==
            [module_name |-> module.module_name, docker_tag |-> tag,
             require_signature |-> module.require_signature,
             verification |-> verdict, containers |-> containers,
             support_root_modules |-> env.support_root_modules,
             requires_root |-> requires_root, unmapped |-> unmapped(containers),
             requires_persistence |-> module.requires_persistence,
             persistence_lock_file |-> lock_file]
    IN  IF tag = ""
        THEN [ok |-> "false", st |-> st, wrote |-> "none",
              call |-> Call(<<>>, "not_reached", FALSE)]
        ELSE IF env.probe \in {"notfound", "badmanifest"}
        THEN [ok |-> "raise", st |-> st, wrote |-> "none",
              call |-> Call(c1, "not_reached", kept)]
        ELSE IF v.ok # "true"
        THEN [ok |-> v.ok, st |-> st2, wrote |-> "none",
              call |-> Call(c2, verification, kept)]
        ELSE IF requires_root /\ ~env.support_root_modules
        THEN [ok |-> "raise", st |-> st2, wrote |-> "none",
              call |-> Call(c2, verification, kept)]
        ELSE IF ~ran
        THEN [ok |-> "false", st |-> st2, wrote |-> "none",
              call |-> Call(c2, verification, unlinked)]
        ELSE [ok |-> IF env.run = "exit0" THEN "true" ELSE "false",
              st |-> HelperPull([st2 EXCEPT !.t = @ + env.duration]),
              wrote |-> env.result,
              call |-> Call(c2 \o <<"module", "busybox">>, verification, unlinked)]

\* handle_processor_output: the parsed out/result.json, None when it is missing or
\* not JSON
handle_processor_output(wrote) == IF wrote = "valid" THEN "json" ELSE "None"

\* a plausible slip: a module without output gets no entry
AppendOutput_SkipsEmpty(outputs, module_name, output) ==
    IF output = "None" THEN outputs ELSE Append(outputs, <<module_name, output>>)

\* outputs.append((task_processing.module_name, output))
AppendOutput(outputs, module_name, output) == Append(outputs, <<module_name, output>>)

\* the working state of process_series inside processing/<unit>: the markers at
\* the top of the folder, in/, out/, what out/result.json holds ("none", a
\* module's "valid" or "invalid" file, or the dumped "list"), the outputs
\* collected so far and the docker_runtime calls made
Work(top, in, out) ==
    [top |-> top, in |-> in, out |-> out, result |-> "none", dumped |-> <<>>,
     outputs |-> <<>>, calls |-> <<>>, narrowed |-> 0]

ModuleRan(call) == "module" \in SeqToSet(call.containers)

\* the file a module writes to out/
ModuleOutput(module_name) == "o_" \o module_name

\* the record of one docker_runtime call: its outcome and the folders it met
CallRecord(w, r) ==
    r.call @@ [ok |-> r.ok, in |-> w.in, out |-> w.out, result |-> w.result,
               narrowed |-> w.narrowed]

\* what a module run leaves in the working state
AfterModule(w, r) ==
    IF ModuleRan(r.call)
    THEN [w EXCEPT !.out.files = @ \cup {ModuleOutput(r.call.module_name)},
                   !.result = r.wrote,
                   !.calls = Append(@, CallRecord(w, r))]
    ELSE [w EXCEPT !.calls = Append(@, CallRecord(w, r))]

\* a plausible slip: the step's output is added to the files already in in/
Rotate_KeepsInput(process, i, w1) ==
    [w1 EXCEPT
       !.outputs = AppendOutput(@, process[i].module_name,
                                handle_processor_output(w1.result)),
       !.result = "none",
       !.in = IF i < Len(process)
              THEN [exists |-> TRUE, files |-> w1.in.files \cup w1.out.files]
              ELSE NoDir,
       !.out = IF i < Len(process) THEN EmptyDir ELSE w1.out]

\* the rotation after a successful step: its output is recorded, result.json and
\* in/ are removed, and out/ becomes the next step's in/
Rotate(process, i, w1) ==
    [w1 EXCEPT
       !.outputs = AppendOutput(@, process[i].module_name,
                                handle_processor_output(w1.result)),
       !.result = "none",
       !.in = IF i < Len(process) THEN w1.out ELSE NoDir,
       !.out = IF i < Len(process) THEN EmptyDir ELSE w1.out]

\* the loop over the processing steps of a multi-module task
RECURSIVE RunModules(_, _, _, _, _)
\* a plausible slip: the loop does not break on a failed step
AfterStep_Continues(process, i, envs, r, w1) ==
    RunModules(process, i + 1, envs, r.st, Rotate(process, i, w1))

\* if not processing_success: break
AfterStep(process, i, envs, r, w1) ==
    IF r.ok # "true" THEN [ok |-> r.ok, st |-> r.st, w |-> w1]
    ELSE RunModules(process, i + 1, envs, r.st, Rotate(process, i, w1))

Step(process, i, envs, r, w) == AfterStep(process, i, envs, r, AfterModule(w, r))

RunModules(process, i, envs, st, w) ==
    IF i > Len(process) THEN [ok |-> "true", st |-> st, w |-> w]
    ELSE IF ~w.in.exists THEN [ok |-> "raise", st |-> st, w |-> w]
    ELSE Step(process, i, envs, docker_runtime(process[i], envs[i], st),
              [w EXCEPT !.in.files = @ \cup {TASKFILE}, !.narrowed = i])

\* "done all steps": the collected outputs are dumped to out/result.json, and the
\* finally clause writes out/task.json
DoneAllSteps(r) ==
    [ok |-> r.ok, st |-> r.st,
     w |-> [r.w EXCEPT
              !.result = IF r.ok # "raise" /\ r.w.outputs # <<>> THEN "list" ELSE @,
              !.dumped = IF r.ok # "raise" /\ r.w.outputs # <<>> THEN r.w.outputs ELSE @,
              !.out.files = @ \cup {TASKFILE}]]

\* the branch for a list of processing steps
RunPipeline(task, envs, st, w) ==
    IF Len(task.process) = 0 THEN [ok |-> "raise", st |-> st, w |-> w]
    ELSE DoneAllSteps(RunModules(task.process, 1, envs, st, w))

SingleDone(task, r, w1) ==
    IF r.ok # "true" THEN [ok |-> r.ok, st |-> r.st, w |-> w1]
    ELSE [ok |-> "true", st |-> r.st,
          w |-> [w1 EXCEPT
                   !.out.files = @ \cup {TASKFILE},
                   !.outputs = AppendOutput(@, task.process[1].module_name,
                                            handle_processor_output(w1.result))]]

SingleStep(task, r, w) == SingleDone(task, r, AfterModule(w, r))

\* the branch for a single processing step
RunSingle(task, envs, st, w) ==
    IF Len(task.process) = 0 THEN [ok |-> "false", st |-> st, w |-> w]
    ELSE SingleStep(task, docker_runtime(task.process[1], envs[1], st), w)

\* push_input_task: copy in/task.json to out/ unless out/ has one
push_input_task(w) ==
    IF w.out.exists /\ TASKFILE \notin w.out.files
       /\ w.in.exists /\ TASKFILE \in w.in.files
    THEN [w EXCEPT !.out.files = @ \cup {TASKFILE}]
    ELSE w

\* dispatch.send.update_fail_stage: writes info.fail_stage into <target>/in/task.json
update_fail_stage(w) ==
    IF w.in.exists /\ TASKFILE \in w.in.files THEN "processing" ELSE ""

\* move_results: the folder the unit is pushed to
ResultFolder(processing_success, needs_dispatching) ==
    IF ~processing_success THEN "error"
    ELSE IF needs_dispatching THEN "outgoing" ELSE "success"

\* move_out_folder: the set of folders created (none when the move raises)
move_out_folder(name, w, destination, move_all, occupied) ==
    LET target == IF <<destination, name>> \in occupied THEN "renamed" ELSE name
    IN  IF move_all
        THEN {[stage |-> destination, name |-> target, whole |-> TRUE,
               markers |-> w.top, in |-> w.in, out |-> w.out, result |-> w.result,
               dumped |-> w.dumped, fail_stage |-> update_fail_stage(w)]}
        ELSE IF ~w.out.exists THEN {}
        ELSE {[stage |-> destination, name |-> target, whole |-> FALSE,
               markers |-> {}, in |-> NoDir, out |-> w.out, result |-> w.result,
               dumped |-> w.dumped, fail_stage |-> ""]}

move_results(name, w, processing_success, needs_dispatching, occupied) ==
    IF LOCK \in w.top THEN {}
    ELSE move_out_folder(name, [w EXCEPT !.top = @ \cup {LOCK}],
                         ResultFolder(processing_success, needs_dispatching),
                         ~processing_success, occupied)

\* the finally clause of process_series on the docker runner: push_input_task,
\* move_results, shutil.rmtree
Finally(name, body, w, needs_dispatching, occupied) ==
    [success |-> body.ok = "true",
     needs_dispatching |-> needs_dispatching,
     placed |-> move_results(name, w, body.ok = "true", needs_dispatching, occupied),
     outputs |-> w.outputs,
     calls |-> w.calls,
     st |-> body.st]

Finish(name, body, needs_dispatching, occupied) ==
    Finally(name, body, push_input_task(body.w), needs_dispatching, occupied)

\* in/ after "for child in folder.iterdir(): if child.is_file() and
\* child.name != .processing: child.rename(in/)"
MovedIn(files) ==
    [exists |-> TRUE, files |-> {x \in files : is_file(x) /\ x # PROCESSING}]

\* what stays at the top of the folder: .processing and the subfolders
LeftAtTop(files) == {PROCESSING} \cup {x \in files : ~is_file(x)}

\* the try block of process_series: the .processing marker, the task file, in/ and
\* out/, and the processing steps
Body(f, envs, st) ==
    IF PROCESSING \in f.files
    THEN [ok |-> "false", st |-> st, w |-> Work(f.files, NoDir, NoDir)]
    ELSE IF TASKFILE \notin f.files
    THEN [ok |-> "raise", st |-> st, w |-> Work(f.files \cup {PROCESSING}, NoDir, NoDir)]
    ELSE IF f.task.is_list
    THEN RunPipeline(f.task, envs, st, Work(LeftAtTop(f.files), MovedIn(f.files), EmptyDir))
    ELSE RunSingle(f.task, envs, st, Work(LeftAtTop(f.files), MovedIn(f.files), EmptyDir))

TaskEvent(event, task_id) == [event |-> event, task_id |-> task_id]

\* task.id once the task file has been loaded, "Unknown" otherwise
LoadedTaskId(f) ==
    IF PROCESSING \notin f.files /\ TASKFILE \in f.files THEN f.task.id ELSE "Unknown"

\* PROCESS_BEGIN is sent once the task is loaded and the runtime is chosen
BeginEvents(f) ==
    IF PROCESSING \notin f.files /\ TASKFILE \in f.files
    THEN <<TaskEvent("PROCESS_BEGIN", f.task.id)>>
    ELSE <<>>

\* a plausible slip: the completion is announced although the dispatcher still
\* has to send the unit
FinalEvents_CompleteAlways(task_id, processing_success, needs_dispatching) ==
    IF processing_success
    THEN <<TaskEvent("PROCESS_COMPLETE", task_id), TaskEvent("COMPLETE", task_id)>>
    ELSE <<TaskEvent("ERROR", task_id)>>

\* the task events of the finally clause
FinalEvents(task_id, processing_success, needs_dispatching) ==
    IF processing_success
    THEN <<TaskEvent("PROCESS_COMPLETE", task_id)>>
            \o (IF ~needs_dispatching THEN <<TaskEvent("COMPLETE", task_id)>> ELSE <<>>)
    ELSE <<TaskEvent("ERROR", task_id)>>

\* process_series on the docker runner: the unit folder is gone afterwards
\* (shutil.rmtree), placed is where move_results left it
process_series(f, name, envs, st, occupied) ==
    LET r == Finish(name, Body(f, envs, st),
                    PROCESSING \notin f.files /\ TASKFILE \in f.files /\ f.task.dispatch,
                    occupied)
    IN  r @@ [events |-> BeginEvents(f)
                            \o FinalEvents(LoadedTaskId(f), r.success, r.needs_dispatching)]

------------------------------------------------------------------------------
(* The processor as a state machine *)

ProcTask(id, process, is_list, dispatch) ==
    [id |-> id, process |-> process, is_list |-> is_list, dispatch |-> dispatch]

Pipelines ==
    {<<ModuleA>>, <<ModuleA, ModuleB>>, <<ModuleB, ModuleA>>, <<ModuleA, ModuleC>>,
     <<ModuleA, ModuleA>>}

TaskShapes(id) ==
    {ProcTask(id, <<m>>, FALSE, d) : m \in {ModuleA, ModuleB, ModuleC}, d \in BOOLEAN}
    \cup {ProcTask(id, p, TRUE, d) : p \in Pipelines, d \in BOOLEAN}

Unit(files, task) == [exists |-> TRUE, files |-> files, task |-> task]

\* a unit as the router or an aggregator leaves it, one whose task.json did not
\* arrive, a unit still locked by the component that moves it in, a unit taken by
\* another instance, and a patient unit as move_patient_folder leaves it
FirstUnits ==
    {Unit({TASKFILE, "a.dcm"}, t) : t \in TaskShapes("u1")}
    \cup {Unit({"a.dcm"}, NoTask), Unit({TASKFILE, "a.dcm", LOCK}, ProcTask("u1", <<ModuleA>>, FALSE, FALSE)),
          Unit({TASKFILE, "a.dcm", PROCESSING}, ProcTask("u1", <<ModuleA>>, FALSE, FALSE)),
          Unit({TASKFILE, "U1/a.dcm"}, ProcTask("u1", <<ModuleA>>, FALSE, FALSE))}

SecondUnits ==
    {NoUnit,
     Unit({TASKFILE, "a.dcm"}, ProcTask("u2", <<ModuleA>>, FALSE, FALSE)),
     Unit({TASKFILE, "a.dcm"}, ProcTask("u2", <<ModuleA, ModuleB>>, TRUE, TRUE))}

NoOutcome ==
    [done |-> FALSE, success |-> FALSE, needs_dispatching |-> FALSE, placed |-> {},
     outputs |-> <<>>, task |-> NoTask, found |-> {}, file_count_begin |-> 0, events |-> <<>>]

ProcInit ==
    /\ clock = 0
    /\ \E f1 \in FirstUnits, f2 \in SecondUnits : processing = [u1 |-> f1, u2 |-> f2]
    /\ docker_pull_throttle = [tag \in ThrottleKeys |-> NoTime]
    /\ pulls = [tag \in PulledImages |-> <<>>]
    /\ results = [u \in UnitIds |-> NoOutcome]
    /\ runs = [u \in UnitIds |-> <<>>]

\* the folders process_series has created so far
Occupied == {<<p.stage, p.name>> : p \in UNION {results[u].placed : u \in UnitIds}}

ProcTick ==
    /\ clock < MaxClock
    /\ clock' = clock + 1
    /\ UNCHANGED <<processing, docker_pull_throttle, pulls, results, runs>>
    /\ UNCHANGED nonProcVars

\* what process_series leaves behind for unit u
Processed(u, r) ==
    /\ r.st.t <= MaxClock
    /\ clock' = r.st.t
    /\ docker_pull_throttle' = r.st.throttle
    /\ pulls' = r.st.pulls
    /\ processing' = [processing EXCEPT ![u] = NoUnit]
    /\ results' = [results EXCEPT ![u] =
                      [done |-> TRUE, success |-> r.success,
                       needs_dispatching |-> r.needs_dispatching,
                       placed |-> r.placed, outputs |-> r.outputs,
                       task |-> processing[u].task, found |-> processing[u].files,
                       file_count_begin |-> Cardinality(rglob_dcm(processing[u].files)),
                       events |-> r.events]]
    /\ runs' = [runs EXCEPT ![u] = r.calls]

\* the processor picks a ready unit and runs process_series on it
ProcessSeries ==
    /\ \E u \in UnitIds :
        /\ is_ready_for_processing(processing[u])
        /\ \E envs \in [1..Len(processing[u].task.process) -> RunEnvs] :
              Processed(u, process_series(processing[u], u, envs,
                                          DockerState(clock, docker_pull_throttle, pulls),
                                          Occupied))
    /\ UNCHANGED nonProcVars

\* process_series called on a unit that another instance has marked .processing
\* since the scan found it ready
ProcessSeriesTaken ==
    /\ \E u \in UnitIds :
        /\ processing[u].exists
        /\ PROCESSING \in processing[u].files
        /\ LOCK \notin processing[u].files
        /\ Processed(u, process_series(processing[u], u, <<>>,
                                      DockerState(clock, docker_pull_throttle, pulls),
                                      Occupied))
    /\ UNCHANGED nonProcVars

ProcNext == ProcTick \/ ProcessSeries \/ ProcessSeriesTaken
------------------------------------------------------------------------------
(* The patient folder shared by the study aggregator (push_studylevel_patient) *)
(* and the patient aggregator (route_patient), one file operation at a time    *)

PushedStudies == {"U1", "U2", "U3"}
PatientStudies == PushedStudies \cup {"U0"}

NoPatientFolder == [exists |-> FALSE, entries |-> {}]

PushIdle == [at |-> "idle", study |-> "", first |-> FALSE]

\* is_patient_locked: .lock or .processing exists, or task.json does not
is_patient_locked(f) ==
    \/ LOCK \in f.entries
    \/ PROCESSING \in f.entries
    \/ TASKFILE \notin f.entries

LockInit ==
    /\ pfolder \in {NoPatientFolder, [exists |-> TRUE, entries |-> {TASKFILE, "U0"}]}
    /\ pdest = {}
    /\ pcRoute = "idle"
    /\ pcPush = PushIdle
    /\ outcome = [u \in PushedStudies |-> "waiting"]
    /\ lost = {}

\* route_patient up to the creation of its lock file <patient>/<patient>.lock
route_patient_lock ==
    /\ pcRoute = "idle"
    /\ pfolder.exists
    /\ ~is_patient_locked(pfolder)
    /\ NAMEDLOCK \notin pfolder.entries
    /\ pfolder' = [pfolder EXCEPT !.entries = @ \cup {NAMEDLOCK}]
    /\ pcRoute' = "locked"
    /\ UNCHANGED <<pdest, pcPush, outcome, lost>>
    /\ UNCHANGED nonLockVars

\* move_patient_folder: every entry that is not a lock file goes to the destination
move_patient_folder ==
    /\ pcRoute = "locked"
    /\ TASKFILE \in pfolder.entries
    /\ pdest' = pdest \cup (pfolder.entries \cap PatientStudies)
    /\ pfolder' = [pfolder EXCEPT !.entries = {e \in @ : EndsWithLock(e)}]
    /\ pcRoute' = "moved"
    /\ UNCHANGED <<pcPush, outcome, lost>>
    /\ UNCHANGED nonLockVars

\* remove_patient_folder: lock.free() and shutil.rmtree of the patient folder
remove_patient_folder ==
    /\ pcRoute = "moved"
    /\ lost' = lost \cup (pfolder.entries \cap PatientStudies)
    /\ pfolder' = NoPatientFolder
    /\ pcRoute' = "idle"
    /\ UNCHANGED <<pdest, pcPush, outcome>>
    /\ UNCHANGED nonLockVars

\* push_studylevel_patient: the patient folder is created if missing and locked
\* with <patient>/.lock; a lock that exists already makes the push fail
push_studylevel_patient_lock ==
    \E u \in PushedStudies :
        /\ pcPush.at = "idle"
        /\ outcome[u] = "waiting"
        /\ IF pfolder.exists /\ LOCK \in pfolder.entries
           THEN /\ outcome' = [outcome EXCEPT ![u] = "error"]
                /\ UNCHANGED <<pfolder, pcPush>>
           ELSE /\ pfolder' = [exists |-> TRUE, entries |-> pfolder.entries \cup {LOCK}]
                /\ pcPush' = [at |-> "locked", study |-> u, first |-> ~pfolder.exists]
                /\ UNCHANGED outcome
        /\ UNCHANGED <<pdest, pcRoute, lost>>
        /\ UNCHANGED nonLockVars

\* create_patient_task for the first study, Task.from_file otherwise, then
\* update_patient_task; an unreadable task file frees the lock and fails the push
push_studylevel_patient_task ==
    /\ pcPush.at = "locked"
    /\ IF pfolder.exists /\ (pcPush.first \/ TASKFILE \in pfolder.entries)
       THEN /\ pfolder' = [pfolder EXCEPT !.entries = @ \cup {TASKFILE}]
            /\ pcPush' = [pcPush EXCEPT !.at = "tasked"]
            /\ UNCHANGED outcome
       ELSE /\ pfolder' = [pfolder EXCEPT !.entries = @ \ {LOCK}]
            /\ pcPush' = PushIdle
            /\ outcome' = [outcome EXCEPT ![pcPush.study] = "error"]
    /\ UNCHANGED <<pdest, pcRoute, lost>>
    /\ UNCHANGED nonLockVars

\* the study's files are moved into <patient>/<study uid>/
push_studylevel_patient_move ==
    /\ pcPush.at = "tasked"
    /\ IF pfolder.exists
       THEN /\ pfolder' = [pfolder EXCEPT !.entries = @ \cup {pcPush.study}]
            /\ pcPush' = [pcPush EXCEPT !.at = "added"]
            /\ UNCHANGED outcome
       ELSE /\ pcPush' = PushIdle
            /\ outcome' = [outcome EXCEPT ![pcPush.study] = "error"]
            /\ UNCHANGED pfolder
    /\ UNCHANGED <<pdest, pcRoute, lost>>
    /\ UNCHANGED nonLockVars

\* lock.free() and return True: route_study then removes the study folder
push_studylevel_patient_free ==
    /\ pcPush.at = "added"
    /\ pfolder' = [pfolder EXCEPT !.entries = @ \ {LOCK}]
    /\ pcPush' = PushIdle
    /\ outcome' = [outcome EXCEPT ![pcPush.study] = "pushed"]
    /\ UNCHANGED <<pdest, pcRoute, lost>>
    /\ UNCHANGED nonLockVars

LockNext ==
    \/ route_patient_lock
    \/ move_patient_folder
    \/ remove_patient_folder
    \/ push_studylevel_patient_lock
    \/ push_studylevel_patient_task
    \/ push_studylevel_patient_move
    \/ push_studylevel_patient_free

------------------------------------------------------------------------------
(* The spool as a whole: one unit on its way through the stage folders.      *)
(* The series router and the dispatcher are not part of the sources; their    *)
(* moves follow the description of the two components.                       *)

MaxRestarts == 2

\* the position of a spool folder in the pipeline
\* incoming -> studies -> patients -> processing -> outgoing -> success|error|discard
StageRank(stage) ==
    CASE stage = "incoming" -> 0
      [] stage = "studies" -> 1
      [] stage = "patients" -> 2
      [] stage = "processing" -> 3
      [] stage = "outgoing" -> 4
      [] OTHER -> 5

\* config.mercure.rules[applied_rule].action of the current configuration;
\* "missing" when the rule is no longer configured
RuleActions == {"process", "both", "route", "missing"}

\* the trigger scope of the rule that was applied: rE is a series-level rule
RuleScope(rule) == IF rule \in DOMAIN rules THEN rules[rule] ELSE "series"

\* (info.action, info.applied_rule) of the units entering the spool
PipeActionConfigs ==
    ActionConfigs \cup
    {<<a, r>> : a \in {"route", "process", "both", "notification", "discard"},
                r \in {"rE", "rP"}}

\* what is known of the unit besides the folders that hold it
PipeTasks ==
    {[task |-> StudyTask("t1", "U1", tc[1], tc[2], fa, ac[1], ac[2]),
      scope |-> RuleScope(ac[2]), rule_action |-> ra, dispatch |-> ds,
      as_received |-> ar, fail_stage |-> ""] :
        tc \in {<<"timeout", {}>>, <<"received_series", {"T1"}>>},
        fa \in {"", "discard"}, ac \in PipeActionConfigs, ra \in RuleActions,
        ds \in BOOLEAN, ar \in BOOLEAN}

NoMove == [from |-> "", to |-> "", by |-> "", fail_stage |-> ""]

Place(stage, taskfile) == [stage |-> stage, taskfile |-> taskfile]

At(places, stage) == {p \in places : p.stage = stage}

\* the folders after the unit left 'from' and arrived in 'to'
Moved(places, from, to, taskfile) ==
    (places \ (At(places, from) \cup At(places, to)))
        \cup {Place(to, taskfile \/ \E p \in At(places, to) : p.taskfile)}

PipeInit ==
    /\ uplaces = {Place("incoming", FALSE)}
    /\ utask \in PipeTasks
    /\ umove = NoMove
    /\ restarts = 0

------------------------------------------------------------------------------
(* Series router *)

\* the branch on trigger scope and action
RouterDestination(scope, action) ==
    IF scope \in {"study", "patient"} THEN "studies"
    ELSE CASE action = "route" -> "outgoing"
           [] action \in {"process", "both"} -> "processing"
           [] action = "notification" -> "success"
           [] OTHER -> "discard"

\* routed: the rule triggered; failed: a configuration or rule error
route_series ==
    /\ At(uplaces, "incoming") # {}
    /\ \E triggered \in BOOLEAN, failed \in BOOLEAN :
         LET to == IF failed THEN "error"
                   ELSE IF ~triggered THEN "discard"
                   ELSE RouterDestination(utask.scope, utask.task.action)
         IN  /\ uplaces' = Moved(uplaces, "incoming", to, TRUE)
             /\ utask' = [utask EXCEPT !.fail_stage = IF failed THEN "routing" ELSE @]
             /\ umove' = [from |-> "incoming", to |-> to, by |-> "route_series",
                          fail_stage |-> utask.fail_stage]
    /\ UNCHANGED restarts
    /\ UNCHANGED nonPipeVars

------------------------------------------------------------------------------
(* Study aggregator *)

\* the spool the scan of route_studies works on: the unit as studies/s1
StudySpool(task, pat) ==
    [studies |-> [s \in StudyNames |-> IF s = "s1" THEN StudyFolder(task) ELSE NoFolder],
     patients |-> [p \in PatientNames |-> pat],
     spool |-> {}]

\* the folders that hold the unit after the scan
StudyPlaces(r, study_uid) ==
    {Place(e.stage, TASKFILE \in e.files) : e \in {e \in r.spool : e.src = "s1"}}
        \cup (IF r.patients["m1_rP"].sub[study_uid] # {}
              THEN {Place("patients", TRUE)} ELSE {})
        \cup (IF r.studies["s1"].exists THEN {Place("studies", TRUE)} ELSE {})

\* where the scan moved the unit to (studies: it did not move)
StudyTarget(places) ==
    IF \E p \in places : p.stage # "studies"
    THEN (CHOOSE p \in places : p.stage # "studies").stage
    ELSE "studies"

AfterStudyScan(places) ==
    /\ uplaces' = (uplaces \ At(uplaces, "studies")) \cup places
    /\ umove' = [from |-> "studies", to |-> StudyTarget(places), by |-> "route_studies",
                 fail_stage |-> utask.fail_stage]

PipeRouteStudies ==
    /\ At(uplaces, "studies") # {}
    /\ \E env \in ScanEnvs, t \in {0, MaxTime},
          pat \in {NoPatient, ExistingPatient({TASKFILE})} :
         AfterStudyScan(StudyPlaces(
             route_studies(StudySpool(utask.task, pat), {},
                           [x \in SeriesUIDs |-> NoSeries], t, env, FALSE),
             utask.task.study_uid))
    /\ UNCHANGED <<utask, restarts>>
    /\ UNCHANGED nonPipeVars

------------------------------------------------------------------------------
(* Patient aggregator *)

\* route_patient: the destination chosen by the action of the patient task
route_patient_destination(action) ==
    CASE action = "notification" -> "SUCCESS"
      [] action = "route" -> "OUTGOING"
      [] action \in {"process", "both"} -> "PROCESSING"
      [] OTHER -> "ERROR"

\* move_patient_folder's destination argument -> spool folder
PatientDestinationFolder(destination) ==
    CASE destination = "PROCESSING" -> "processing"
      [] destination = "SUCCESS" -> "success"
      [] destination = "ERROR" -> "error"
      [] destination = "OUTGOING" -> "outgoing"
      [] destination = "DISCARD" -> "discard"
      [] OTHER -> "unknown"

\* not patient.complete_force_action or patient.complete_force_action == "ignore"
EffectivePatientForceAction(action) == IF action = "" THEN "ignore" ELSE action

\* one scan of route_patients over the unit's patient folder
route_patients_destination(task, complete, forced) ==
    IF complete THEN route_patient_destination(task.action)
    ELSE IF forced /\ EffectivePatientForceAction(task.complete_force_action) = "discard"
    THEN "DISCARD"
    ELSE ""

PatientMoved(destination, mkdirFail) ==
    LET to == IF destination = "" \/ mkdirFail THEN "patients"
              ELSE PatientDestinationFolder(destination)
    IN  /\ uplaces' = Moved(uplaces, "patients", to, TRUE)
        /\ umove' = [from |-> "patients", to |-> to, by |-> "route_patients",
                     fail_stage |-> utask.fail_stage]

PipeRoutePatients ==
    /\ At(uplaces, "patients") # {}
    /\ \E complete \in BOOLEAN, forced \in BOOLEAN, mkdirFail \in BOOLEAN :
         PatientMoved(route_patients_destination(utask.task, complete, forced), mkdirFail)
    /\ UNCHANGED <<utask, restarts>>
    /\ UNCHANGED nonPipeVars

------------------------------------------------------------------------------
(* Processor *)

\* process_series on processing/<id>: ok says whether every module succeeded
PipeProcessSeries ==
    /\ \E p \in At(uplaces, "processing"), ok \in BOOLEAN :
         LET processing_success == p.taskfile /\ ok
             needs_dispatching == p.taskfile /\ utask.dispatch
             to == ResultFolder(processing_success, needs_dispatching)
         IN  /\ uplaces' = Moved(uplaces, "processing", to,
                                 p.taskfile \/ At(uplaces, to) # {})
             /\ utask' = [utask EXCEPT !.fail_stage =
                            IF ~processing_success /\ p.taskfile THEN "processing" ELSE @]
             /\ umove' = [from |-> "processing", to |-> to, by |-> "process_series",
                          fail_stage |-> utask.fail_stage]
    /\ UNCHANGED restarts
    /\ UNCHANGED nonPipeVars

------------------------------------------------------------------------------
(* Dispatcher *)

\* all targets succeeded, or one target is exhausted
dispatch ==
    /\ At(uplaces, "outgoing") # {}
    /\ \E sent \in BOOLEAN :
         LET to == IF sent THEN "success" ELSE "error"
         IN  /\ uplaces' = Moved(uplaces, "outgoing", to, TRUE)
             /\ utask' = [utask EXCEPT !.fail_stage = IF sent THEN @ ELSE "dispatching"]
             /\ umove' = [from |-> "outgoing", to |-> to, by |-> "dispatch",
                          fail_stage |-> utask.fail_stage]
    /\ UNCHANGED restarts
    /\ UNCHANGED nonPipeVars

------------------------------------------------------------------------------
(* Restart administration *)

\* a plausible slip: every failed task is restarted as a processing task
RestartShape_IgnoresFailStage(fail_stage) ==
    IF fail_stage = "" THEN "refused" ELSE "processing"

\* restart_job: the restart selected by info.fail_stage
RestartShape(fail_stage) ==
    IF fail_stage = "" THEN "refused"
    ELSE IF fail_stage = "processing" THEN "processing"
    ELSE IF fail_stage = "dispatching" THEN "dispatching"
    ELSE "refused"

\* the configured rule of the task performs processing
RuleProcesses(t) ==
    /\ t.task.applied_rule # ""
    /\ t.rule_action # "missing"
    /\ t.rule_action \in {"both", "process"}

\* restart_processing_task: "moved", "left" (the new processing folder is left
\* behind by an early return) or "refused"
restart_processing_task(places, t) ==
    IF At(places, "error") = {} \/ ~t.as_received THEN "refused"
    ELSE IF At(places, "processing") # {} THEN "refused"
    ELSE IF ~RuleProcesses(t) THEN "left"
    ELSE "moved"

\* restart_dispatch: "moved" or "refused"
restart_dispatch(places, t) ==
    IF t.task.action # "" /\ t.task.action \notin {"both", "route"} THEN "refused"
    ELSE IF t.dispatch THEN "moved"
    ELSE "refused"

Restarted(to, result, by, taskfile) ==
    /\ uplaces' = IF result = "moved" THEN Moved(uplaces, "error", to, TRUE)
                  ELSE IF result = "left" THEN uplaces \cup {Place(to, taskfile)}
                  ELSE uplaces
    /\ utask' = [utask EXCEPT !.fail_stage = IF result = "moved" THEN "" ELSE @]
    /\ umove' = IF result = "refused" THEN umove
                ELSE [from |-> "error", to |-> to, by |-> by,
                      fail_stage |-> utask.fail_stage]
    /\ restarts' = restarts + 1

RestartAs(shape, by) ==
    IF shape = "processing"
    THEN \E taskfile \in BOOLEAN :
            Restarted("processing", restart_processing_task(uplaces, utask), by, taskfile)
    ELSE IF shape = "dispatching"
    THEN Restarted("outgoing", restart_dispatch(uplaces, utask), by, TRUE)
    ELSE Restarted("error", "refused", by, TRUE)

restart_job ==
    /\ restarts < MaxRestarts
    /\ \E p \in At(uplaces, "error") :
         /\ utask.as_received
         /\ p.taskfile
    /\ RestartAs(RestartShape(utask.fail_stage), "restart_job")
    /\ UNCHANGED nonPipeVars

reprocess_with_settings ==
    /\ restarts < MaxRestarts
    /\ \E p \in At(uplaces, "error") :
         /\ utask.as_received
         /\ p.taskfile
    /\ RuleProcesses(utask)
    /\ At(uplaces, "processing") = {}
    /\ \E valid_settings \in BOOLEAN :
         Restarted("processing", IF valid_settings THEN "moved" ELSE "refused",
                   "reprocess_with_settings", TRUE)
    /\ UNCHANGED nonPipeVars

PipeNext ==
    \/ route_series
    \/ PipeRouteStudies
    \/ PipeRoutePatients
    \/ PipeProcessSeries
    \/ dispatch
    \/ restart_job
    \/ reprocess_with_settings
------------------------------------------------------------------------------
(* Restart and delete requests (webinterface/queue.py) on the folders of one  *)
(* job id. A job folder is its top-level files, the in/task.json and the      *)
(* as_received/ snapshot below it, and the content of its task file. JSON     *)
(* scalars are kept as written: "null", "0", "3". Every behaviour is one      *)
(* request on one state of the spool.                                        *)

ERROR == ".error"

JobStages == {"error", "processing", "outgoing", "success", "studies"}

Targets == {"tA", "tB"}

\* task.dispatch: retries and next_retry_at of the dispatch object, and the
\* per-target entries of dispatch.status
NoDispatch ==
    [present |-> FALSE, has_status |-> FALSE, retries |-> "null",
     next_retry_at |-> "null",
     status |-> [g \in Targets |-> [state |-> "", retries |-> "null",
                                    next_retry_at |-> "null"]]]

Exhausted == [state |-> "error", retries |-> "3", next_retry_at |-> "12:00"]

Completed == [state |-> "complete", retries |-> "0", next_retry_at |-> "null"]

Dispatches ==
    {[NoDispatch EXCEPT !.present = TRUE, !.retries = "3"],
     [present |-> TRUE, has_status |-> TRUE, retries |-> "3", next_retry_at |-> "12:00",
      status |-> [g \in Targets |-> IF g = "tA" THEN Completed ELSE Exhausted]],
     [present |-> TRUE, has_status |-> TRUE, retries |-> "null", next_retry_at |-> "null",
      status |-> [g \in Targets |-> Exhausted]]}

NoJobTask ==
    [action |-> "", applied_rule |-> "", fail_stage |-> "absent", process |-> "",
     dispatch |-> NoDispatch]

NoAsReceived == [exists |-> FALSE, files |-> {}]

NoJob ==
    [exists |-> FALSE, files |-> {}, in_task |-> FALSE, as_received |-> NoAsReceived,
     task |-> NoJobTask]

\* (top-level task.json, in/task.json, as_received/) of a failed job
JobLayouts ==
    {<<TRUE, FALSE, [exists |-> TRUE, files |-> {"a.dcm", TAGS, TASKFILE}]>>,
     <<TRUE, FALSE, NoAsReceived>>,
     <<FALSE, TRUE, [exists |-> TRUE, files |-> {"a.dcm", TAGS}]>>,
     <<FALSE, FALSE, [exists |-> TRUE, files |-> {"a.dcm", TAGS, TASKFILE}]>>,
     <<FALSE, FALSE, [exists |-> TRUE, files |-> {"a.dcm", TAGS}]>>}

JobMarkers == {{}, {LOCK}, {PROCESSING}, {ERROR}}

JobActions == {<<"", "r1">>, <<"route", "r1">>, <<"process", "r1">>, <<"both", "">>}

FailStages == {"absent", "processing", "dispatching", "routing"}

FailedJob(m, lay, d, ar, fs) ==
    [exists |-> TRUE,
     files |-> {"a.dcm"} \cup m \cup (IF lay[1] THEN {TASKFILE} ELSE {}),
     in_task |-> lay[2], as_received |-> lay[3],
     task |-> [action |-> ar[1], applied_rule |-> ar[2], fail_stage |-> fs,
               process |-> "old", dispatch |-> d]]

\* the jobs found in error/: failed jobs of every layout, and marked ones
ErrorJobs ==
    {FailedJob({}, lay, d, ar, fs) :
        lay \in JobLayouts, d \in Dispatches, ar \in JobActions, fs \in FailStages}
    \cup
    {FailedJob(m, <<TRUE, FALSE, [exists |-> TRUE, files |-> {"a.dcm", TAGS}]>>, d,
               <<"route", "r1">>, fs) :
        m \in JobMarkers, d \in Dispatches, fs \in FailStages}

PlainJob(markers) ==
    [NoJob EXCEPT !.exists = TRUE, !.files = {"a.dcm", TASKFILE} \cup markers,
                  !.task = [NoJobTask EXCEPT !.action = "both", !.applied_rule = "r1",
                                             !.process = "old"]]

\* what else of the job id is in the spool
OtherFolders ==
    {[st \in JobStages |-> NoJob],
     [st \in JobStages |-> IF st = "processing" THEN PlainJob({PROCESSING}) ELSE NoJob],
     [st \in JobStages |-> IF st = "outgoing" THEN PlainJob({})
                           ELSE IF st = "success" THEN PlainJob({LOCK}) ELSE NoJob],
     [st \in JobStages |-> IF st = "studies" THEN PlainJob({}) ELSE NoJob]}

\* what a request may meet: the action of the rule as configured now ("missing":
\* the rule is gone) and the file operation that raises
JobEnvs ==
    {[rule_action |-> ra, fault |-> "none"] : ra \in RuleActions} \cup
    {[rule_action |-> "process", fault |-> f] :
        f \in {"mkdir", "lock", "copy", "generate", "rmtree"}}

NoRequest ==
    [op |-> "init", pre |-> [st \in JobStages |-> NoJob], predb |-> FALSE,
     code |-> 0, body |-> "", shape |-> "", category |-> "", force |-> FALSE,
     age |-> 0, custom |-> FALSE, env |-> [rule_action |-> "process", fault |-> "none"]]

JobInit ==
    /\ \E e \in ErrorJobs, o \in OtherFolders :
         /\ o["processing"].exists \/ o["outgoing"].exists \/ o["studies"].exists
               => e.files \cap {LOCK, PROCESSING, ERROR} = {} /\ TASKFILE \in e.as_received.files
         /\ jobs = [o EXCEPT !["error"] = e]
    /\ jdb = TRUE
    /\ jlast = NoRequest

Answer(js, body) == [jobs |-> js, body |-> body]

\* the first task.json found: <folder>/, <folder>/in/, <folder>/as_received/
task_file(f) ==
    IF TASKFILE \in f.files THEN "top"
    ELSE IF f.in_task THEN "in"
    ELSE IF TASKFILE \in f.as_received.files THEN "as_received"
    ELSE "none"

\* processing/<id> after an early return: the copies made so far, the lock gone
\* with the FileLock object
LeftBehind(js, copied) ==
    [js EXCEPT !["processing"] =
        [NoJob EXCEPT !.exists = TRUE, !.files = copied,
                      !.task = IF TASKFILE \in copied THEN js["error"].task ELSE NoJobTask]]

\* processing/<id> of a restarted job: the snapshot and the new task.json
Restarted_Folder(f, process) ==
    [exists |-> TRUE, files |-> f.as_received.files \cup {TASKFILE}, in_task |-> FALSE,
     as_received |-> NoAsReceived,
     task |-> [f.task EXCEPT !.fail_stage = "null", !.process = process]]

\* a plausible slip: the restart goes ahead into an existing processing folder
ProcessingBusy_Never(js) == FALSE

\* processing_folder.exists()
ProcessingBusy(js) == js["processing"].exists

restart_processing_task_folders(js, env) ==
    LET f == js["error"]
    IN  IF task_file(f) = "none" THEN Answer(js, "NO_TASK_FILE")
        ELSE IF ~f.as_received.exists THEN Answer(js, "NO_AS_RECEIVED")
        ELSE IF ProcessingBusy(js) THEN Answer(js, "TASK_NOT_READY")
        ELSE IF env.fault = "mkdir" THEN Answer(js, "TASK_NOT_READY")
        ELSE IF env.fault = "lock" THEN Answer(LeftBehind(js, {}), "TASK_NOT_READY")
        ELSE IF env.fault = "copy" THEN Answer(js, "Failed to restart task")
        ELSE IF f.task.applied_rule = ""
        THEN Answer(LeftBehind(js, f.as_received.files), "NO_RULE_APPLIED")
        ELSE IF env.rule_action = "missing"
        THEN Answer(LeftBehind(js, f.as_received.files), "Rule not found")
        ELSE IF env.rule_action \notin {"both", "process"}
        THEN Answer(LeftBehind(js, f.as_received.files), "Invalid rule action")
        ELSE IF env.fault = "generate"
        THEN Answer(LeftBehind(js, f.as_received.files), "Failed to generate task file")
        ELSE Answer([js EXCEPT !["processing"] = Restarted_Folder(f, "current"),
                               !["error"] = IF env.fault = "rmtree" THEN f ELSE NoJob],
                    "success")

\* a plausible slip: the failure stays recorded in the restarted task
ResetDispatch_KeepsFailStage(task) ==
    [task EXCEPT !.dispatch.retries = "null", !.dispatch.next_retry_at = "null"]

\* a plausible slip: the restart starts every target afresh
ResetDispatch_AllTargets(task) ==
    [task EXCEPT !.dispatch.retries = "null", !.dispatch.next_retry_at = "null",
                 !.dispatch.status = [g \in Targets |->
                                        [state |-> "", retries |-> "null",
                                         next_retry_at |-> "null"]],
                 !.fail_stage = IF @ = "absent" THEN @ ELSE "null"]

\* dispatch["retries"] = None, dispatch["next_retry_at"] = None, fail_stage = None
ResetDispatch(task) ==
    [task EXCEPT !.dispatch.retries = "null", !.dispatch.next_retry_at = "null",
                 !.fail_stage = IF @ = "absent" THEN @ ELSE "null"]

restart_dispatch_folders(js) ==
    LET f == js["error"]
        dispatch_ready == f.files \cap {LOCK, ERROR, PROCESSING} = {}
    IN  IF ~dispatch_ready THEN Answer(js, "TASK_NOT_READY")
        ELSE IF TASKFILE \notin f.files THEN Answer(js, "NO_TASK_FILE")
        ELSE IF f.task.action # "" /\ f.task.action \notin {"both", "route"}
        THEN Answer(js, "WRONG_JOB_TYPE")
        ELSE IF f.task.dispatch.present /\ f.task.dispatch.has_status
        THEN IF js["outgoing"].exists
             \* shutil.move raises: the destination exists
             THEN Answer([js EXCEPT !["error"].files = @ \cup {LOCK},
                                    !["error"].task = ResetDispatch(@)], "raised")
             ELSE Answer([js EXCEPT !["error"] = NoJob,
                                    !["outgoing"] = [f EXCEPT !.task = ResetDispatch(@)]],
                         "success")
        ELSE Answer(js, "NO_DISPATCH_STATUS")

Response(r, code, shape) == [jobs |-> r.jobs, body |-> r.body, code |-> code, shape |-> shape]

\* POST /jobs/fail/restart-job
restart_job_request(js, env) ==
    LET f == js["error"]
        fail_stage == f.task.fail_stage
        d == restart_dispatch_folders(js)
    IN  IF ~f.exists THEN Response(Answer(js, "Task not found in error folder"), 404, "")
        ELSE IF ~f.as_received.exists
        THEN Response(Answer(js, "No original files found for this task"), 404, "")
        ELSE IF task_file(f) = "none"
        THEN Response(Answer(js, "Task file does not exist"), 404, "")
        ELSE IF fail_stage \in {"absent", "null"}
        THEN Response(Answer(js, "No fail stage information"), 400, "")
        ELSE IF fail_stage = "processing"
        THEN Response(restart_processing_task_folders(js, env), 200, "processing")
        ELSE IF fail_stage = "dispatching"
        THEN Response(d, IF d.body = "raised" THEN 500 ELSE 200, "dispatching")
        ELSE Response(Answer(js, "Unknown fail stage"), 400, "")

\* POST /jobs/fail/reprocess-with-settings; custom: use_current_settings is false,
\* valid: module_settings parses as JSON
reprocess_with_settings_request(js, env, custom, valid) ==
    LET f == js["error"]
    IN  IF ~f.exists THEN Response(Answer(js, "Task not found in error folder"), 404, "")
        ELSE IF ~f.as_received.exists
        THEN Response(Answer(js, "No original files found for this task"), 404, "")
        ELSE IF task_file(f) = "none" THEN Response(Answer(js, "Task file not found"), 404, "")
        ELSE IF f.task.applied_rule = ""
        THEN Response(Answer(js, "Task does not have an applied rule"), 400, "")
        ELSE IF env.rule_action = "missing" THEN Response(Answer(js, "Rule not found"), 400, "")
        ELSE IF env.rule_action \notin {"both", "process"}
        THEN Response(Answer(js, "This rule does not perform processing"), 400, "")
        ELSE IF ProcessingBusy(js)
        THEN Response(Answer(js, "Task is currently being processed"), 409, "")
        ELSE IF env.fault = "mkdir"
        THEN Response(Answer(js, "Could not create processing folder"), 500, "")
        ELSE IF env.fault = "lock" THEN Response(Answer(js, "Could not create lock file"), 500, "")
        ELSE IF env.fault = "copy" THEN Response(Answer(js, "raised"), 500, "")
        ELSE IF custom /\ ~valid
        THEN Response(Answer(js, "Invalid JSON in module settings"), 400, "")
        ELSE IF env.fault = "generate" THEN Response(Answer(js, "raised"), 500, "")
        ELSE Response(
                Answer([js EXCEPT !["processing"] =
                                     Restarted_Folder(f, IF custom THEN "current+custom"
                                                         ELSE "current"),
                                  !["error"] = IF env.fault = "rmtree" THEN f ELSE NoJob],
                       "success"),
                200, "processing")

\* folder_map of delete_job
folder_map ==
    [processing |-> "processing", routing |-> "outgoing", studies |-> "studies",
     failure |-> "error", success |-> "success"]

Categories == DOMAIN folder_map \cup {"bogus"}

\* seconds since the .processing marker was touched: fresh, stale
MarkerAges == {10, 600}

\* a plausible slip: a stale marker no longer protects the folder
Protected_ExceptStale(f, force, age) ==
    /\ ~force
    /\ \/ LOCK \in f.files
       \/ PROCESSING \in f.files /\ age <= 300

\* lock_file.exists() and not force, processing_file.exists() and not force
Protected(f, force, age) ==
    /\ ~force
    /\ \/ LOCK \in f.files
       \/ PROCESSING \in f.files

\* rmtree raises; the bookkeeper cannot delete the task
DeleteEnvs == {[rule_action |-> "process", fault |-> f] : f \in {"none", "rmtree", "db"}}

\* DELETE /jobs/{category}/{task_id}
delete_job_request(js, db, category, force, age, env) ==
    LET job == js[folder_map[category]]
        same == [jobs |-> js, db |-> db]
    IN  IF category \notin DOMAIN folder_map THEN same @@ [code |-> 400]
        ELSE IF ~job.exists THEN same @@ [code |-> 404]
        ELSE IF Protected(job, force, age) THEN same @@ [code |-> 409]
        ELSE IF env.fault = "rmtree" THEN same @@ [code |-> 500]
        ELSE [jobs |-> [js EXCEPT ![folder_map[category]] = NoJob],
              db |-> IF env.fault = "db" THEN db ELSE FALSE, code |-> 200]

Request(op, r, category, force, age, custom, env) ==
    [op |-> op, pre |-> jobs, predb |-> jdb, code |-> r.code, body |-> r.body,
     shape |-> r.shape, category |-> category, force |-> force, age |-> age,
     custom |-> custom, env |-> env]

RestartJob ==
    /\ jlast.op = "init"
    /\ \E env \in JobEnvs :
         LET r == restart_job_request(jobs, env)
         IN  /\ jobs' = r.jobs
             /\ jlast' = Request("restart_job", r, "", FALSE, 0, FALSE, env)
    /\ UNCHANGED jdb
    /\ UNCHANGED nonJobVars

ReprocessWithSettings ==
    /\ jlast.op = "init"
    /\ \E env \in JobEnvs, custom \in BOOLEAN, valid \in BOOLEAN :
         LET r == reprocess_with_settings_request(jobs, env, custom, valid)
         IN  /\ custom \/ valid
             /\ jobs' = r.jobs
             /\ jlast' = Request("reprocess_with_settings", r, "", FALSE, 0, custom, env)
    /\ UNCHANGED jdb
    /\ UNCHANGED nonJobVars

DeleteJob ==
    /\ jlast.op = "init"
    /\ \E category \in Categories, force \in BOOLEAN, age \in MarkerAges,
          env \in DeleteEnvs :
         LET r == delete_job_request(jobs, jdb, category, force, age, env)
         IN  /\ jobs' = r.jobs
             /\ jdb' = r.db
             /\ jlast' = Request("delete_job", [code |-> r.code, body |-> "", shape |-> ""],
                                 category, force, age, FALSE, env)
    /\ UNCHANGED nonJobVars

JobNext ==
    \/ RestartJob
    \/ ReprocessWithSettings
    \/ DeleteJob
------------------------------------------------------------------------------
(* A folder of processing/ while it is populated, step by step, next to the   *)
(* processor's scan: move_study_folder and move_patient_folder with the       *)
(* removal of their source (routing/route_studies.py), and the two processing *)
(* restarts (webinterface/queue.py).                                          *)

Populators ==
    {"move_study_folder", "move_patient_folder", "restart_processing_task",
     "reprocess_with_settings"}

Movers == {"move_study_folder", "move_patient_folder"}

NoPick == [done |-> FALSE, files |-> {}]

\* the source: studies/<folder> or patients/<folder> held by the caller's lock,
\* or error/<id> with its as_received/ files
SourceFolder(kind) ==
    [exists |-> TRUE,
     files |-> IF kind \in Movers THEN {"a.dcm", "b.dcm", TASKFILE, NAMEDLOCK}
               ELSE {"a.dcm", "b.dcm"}]

\* the next statement; todo: the files still to be moved or copied
MoveStart(kind, rule_ok) ==
    [kind |-> kind, at |-> "mkdir", rule_ok |-> rule_ok,
     todo |-> {x \in SourceFolder(kind).files : ~EndsWithLock(x)},
     all |-> {x \in SourceFolder(kind).files : ~EndsWithLock(x)} \cup {TASKFILE}]

MoveInit ==
    /\ \E kind \in Populators, rule_ok \in BOOLEAN :
         /\ kind # "restart_processing_task" => rule_ok
         /\ mpc = MoveStart(kind, rule_ok)
         /\ msrc = SourceFolder(kind)
    /\ mdst = [exists |-> FALSE, files |-> {}]
    /\ mpicked = NoPick

\* os.mkdir(destination_folder), processing_folder.mkdir(exist_ok=False)
PopulateMkdir ==
    /\ mpc.at = "mkdir"
    /\ \E ok \in BOOLEAN :
         /\ mdst' = IF ok THEN [exists |-> TRUE, files |-> {}] ELSE mdst
         /\ mpc' = [mpc EXCEPT !.at = IF ok THEN "lock" ELSE "failed"]
    /\ UNCHANGED <<msrc, mpicked>>
    /\ UNCHANGED nonMoveVars

\* helper.FileLock(destination_folder / .lock)
PopulateLock ==
    /\ mpc.at = "lock"
    /\ mdst' = [mdst EXCEPT !.files = @ \cup {LOCK}]
    /\ mpc' = [mpc EXCEPT !.at = "files"]
    /\ UNCHANGED <<msrc, mpicked>>
    /\ UNCHANGED nonMoveVars

\* one shutil.move of the loop (a raise is logged, the loop goes on), or one
\* shutil.copy2 (a raise ends the restart: the lock is freed, the folder removed)
PopulateFile ==
    /\ mpc.at = "files"
    /\ \E x \in mpc.todo, ok \in BOOLEAN :
         IF mpc.kind \in Movers
         THEN /\ mdst' = IF ok THEN [mdst EXCEPT !.files = @ \cup {x}] ELSE mdst
              /\ msrc' = IF ok THEN [msrc EXCEPT !.files = @ \ {x}] ELSE msrc
              /\ mpc' = [mpc EXCEPT !.todo = @ \ {x}]
         ELSE /\ mdst' = IF ok THEN [mdst EXCEPT !.files = @ \cup {x}]
                         ELSE [exists |-> FALSE, files |-> {}]
              /\ msrc' = msrc
              /\ mpc' = IF ok THEN [mpc EXCEPT !.todo = @ \ {x}]
                        ELSE [mpc EXCEPT !.at = "failed"]
    /\ UNCHANGED mpicked
    /\ UNCHANGED nonMoveVars

\* restart_processing_task: the checks of the applied rule after the copy; their
\* early returns leave the folder, and its lock goes with the FileLock object
PopulateCheckRule ==
    /\ mpc.kind = "restart_processing_task"
    /\ mpc.at = "files"
    /\ mpc.todo = {}
    /\ mdst' = IF mpc.rule_ok THEN mdst ELSE [mdst EXCEPT !.files = @ \ {LOCK}]
    /\ mpc' = [mpc EXCEPT !.at = IF mpc.rule_ok THEN "write" ELSE "returned"]
    /\ UNCHANGED <<msrc, mpicked>>
    /\ UNCHANGED nonMoveVars

\* task.to_file(processing_folder / task.json)
PopulateWriteTask ==
    /\ \/ mpc.kind = "restart_processing_task" /\ mpc.at = "write"
       \/ mpc.kind = "reprocess_with_settings" /\ mpc.at = "files" /\ mpc.todo = {}
    /\ mdst' = [mdst EXCEPT !.files = @ \cup {TASKFILE}]
    /\ mpc' = [mpc EXCEPT !.at = "rmtree"]
    /\ UNCHANGED <<msrc, mpicked>>
    /\ UNCHANGED nonMoveVars

\* lock.free() of the destination lock
PopulateUnlock ==
    /\ \/ mpc.kind \in Movers /\ mpc.at = "files" /\ mpc.todo = {}
       \/ mpc.kind \notin Movers /\ mpc.at = "unlock"
    /\ mdst' = [mdst EXCEPT !.files = @ \ {LOCK}]
    /\ mpc' = [mpc EXCEPT !.at = IF mpc.kind \in Movers THEN "free_source" ELSE "done"]
    /\ UNCHANGED <<msrc, mpicked>>
    /\ UNCHANGED nonMoveVars

\* remove_study_folder, remove_patient_folder: lock.free() of the source lock
PopulateFreeSource ==
    /\ mpc.at = "free_source"
    /\ msrc' = [msrc EXCEPT !.files = @ \ {NAMEDLOCK}]
    /\ mpc' = [mpc EXCEPT !.at = "rmtree"]
    /\ UNCHANGED <<mdst, mpicked>>
    /\ UNCHANGED nonMoveVars

\* shutil.rmtree of the source folder
PopulateRemoveSource ==
    /\ mpc.at = "rmtree"
    /\ msrc' = [exists |-> FALSE, files |-> {}]
    /\ mpc' = [mpc EXCEPT !.at = IF mpc.kind \in Movers THEN "done" ELSE "unlock"]
    /\ UNCHANGED <<mdst, mpicked>>
    /\ UNCHANGED nonMoveVars

\* the processor's scan finds the folder ready and starts on it
ProcessorScan ==
    /\ ~mpicked.done
    /\ is_ready_for_processing(mdst)
    /\ mpicked' = [done |-> TRUE, files |-> mdst.files]
    /\ mdst' = [mdst EXCEPT !.files = @ \cup {PROCESSING}]
    /\ UNCHANGED <<mpc, msrc>>
    /\ UNCHANGED nonMoveVars

MoveNext ==
    \/ PopulateMkdir
    \/ PopulateLock
    \/ PopulateFile
    \/ PopulateCheckRule
    \/ PopulateWriteTask
    \/ PopulateUnlock
    \/ PopulateFreeSource
    \/ PopulateRemoveSource
    \/ ProcessorScan
------------------------------------------------------------------------------
(* The patient aggregator (routing/route_studies.py, route_patients and what  *)
(* it calls), run in the router's loop after route_studies. A patient folder  *)
(* is its entries (task.json, markers, one subfolder per study) and the       *)
(* content of its task.json. fs = [studies, patients, spool].                 *)

MaxRouterTime == 3
patient_complete_trigger == 1
patient_forcecomplete_trigger == 2

PatientFolders == {"m1_rP", "m2_rP"}

\* task.patient and the task.info.action of a patient task
NoPatientInfo ==
    [id |-> "none", action |-> "", patient_id |-> "", creation_time |-> NoTime,
     last_receive_time |-> NoTime, complete_trigger |-> "", required |-> {},
     complete_force |-> FALSE, complete_force_action |-> "", received |-> <<>>]

NoAggregate == [exists |-> FALSE, entries |-> {}, task |-> NoPatientInfo]

\* the study folders in studies/ whose task file names the patient
PendingStudiesOf(task, stud) ==
    {s \in DOMAIN stud : /\ stud[s].exists
                         /\ TASKFILE \in stud[s].files
                         /\ stud[s].task.mrn = task.patient_id}

\* a plausible slip: the timeout alone decides, studies/ is not looked at
check_patient_timeout_IgnoresStudies(task, stud, t) ==
    IF task.last_receive_time = NoTime THEN FALSE
    ELSE t > task.last_receive_time + patient_complete_trigger

check_patient_timeout(task, stud, t) ==
    IF task.last_receive_time = NoTime THEN FALSE
    ELSE IF t > task.last_receive_time + patient_complete_trigger
         THEN PendingStudiesOf(task, stud) = {}
         ELSE FALSE

\* check_patient_modalities, check_patient_studies, check_patient_series
check_patient_received(task, required) ==
    parse_completion_series(required, task.received)

is_patient_complete(f, stud, t) ==
    IF TASKFILE \notin f.entries THEN FALSE
    ELSE IF f.task.complete_force THEN TRUE
    ELSE IF FORCE_COMPLETE \in f.entries THEN TRUE
    ELSE IF f.task.complete_trigger = "" THEN FALSE
    ELSE IF f.task.complete_trigger = "timeout"
         THEN check_patient_timeout(f.task, stud, t)
    ELSE IF f.task.complete_trigger \in
                {"received_modalities", "received_studies", "received_series"}
         THEN check_patient_received(f.task, f.task.required)
    ELSE FALSE

\* is_patient_complete persists complete_force when it finds the marker
PersistPatientForce(f) ==
    IF TASKFILE \in f.entries /\ ~f.task.complete_force /\ FORCE_COMPLETE \in f.entries
    THEN [f EXCEPT !.task.complete_force = TRUE]
    ELSE f

\* the entries move_patient_folder moves
MovedEntries(entries, env) == {e \in entries : ~EndsWithLock(e)} \ env.failed

move_patient_folder_fs(fs, task_id, patient, destination, env) ==
    LET stage == DestinationFolder(destination)
        name == IF task_id = "None" THEN "uuid_" \o patient ELSE task_id
        src == fs.patients[patient]
        moved == MovedEntries(src.entries, env)
    IN  IF stage = "unknown" THEN [fs |-> fs, ok |-> FALSE]
        ELSE IF env.mkdirFail \/ FolderAt(fs.spool, stage, name) # {}
        THEN [fs |-> fs, ok |-> FALSE]
        ELSE [fs |-> [fs EXCEPT
                        !.patients[patient].entries = src.entries \ moved,
                        !.spool = @ \cup {[stage |-> stage, name |-> name,
                                           src |-> patient, files |-> moved,
                                           task |-> IF TASKFILE \in moved
                                                    THEN src.task
                                                    ELSE NoPatientInfo]}],
              ok |-> TRUE]

\* lock.free() and shutil.rmtree(patient_folder)
remove_patient_folder_fs(fs, patient) ==
    [fs |-> [fs EXCEPT !.patients[patient] = NoAggregate], ok |-> TRUE]

ReleasePatientLock(fs, patient, lockname) ==
    [fs EXCEPT !.patients[patient].entries = @ \ {lockname}]

push_patientlevel_dispatch(fs, patient, task, env) ==
    move_patient_folder_fs(fs, task.id, patient, "OUTGOING", env)

push_patientlevel_processing(fs, patient, task, env) ==
    move_patient_folder_fs(fs, task.id, patient, "PROCESSING", env)

\* the result of move_patient_folder is dropped
push_patientlevel_notification(fs, patient, task, env) ==
    [fs |-> move_patient_folder_fs(fs, task.id, patient, "SUCCESS", env).fs, ok |-> TRUE]

route_patient(fs, patient, env) ==
    LET f == fs.patients[patient]
        task == f.task
        locked == [fs EXCEPT !.patients[patient].entries = @ \cup {NAMEDLOCK}]
        fail(g) == [fs |-> ReleasePatientLock(g, patient, NAMEDLOCK), ok |-> FALSE]
        done(r) == IF r.ok THEN remove_patient_folder_fs(r.fs, patient) ELSE fail(r.fs)
    IN  IF is_patient_locked(f) THEN [fs |-> fs, ok |-> TRUE]
        ELSE IF NAMEDLOCK \in f.entries THEN [fs |-> fs, ok |-> TRUE]
        ELSE IF task.action = "" THEN fail(locked)
        ELSE IF task.action = "notification"
             THEN done(push_patientlevel_notification(locked, patient, task, env))
        ELSE IF task.action = "route"
             THEN done(push_patientlevel_dispatch(locked, patient, task, env))
        ELSE IF task.action \in {"process", "both"}
             THEN done(push_patientlevel_processing(locked, patient, task, env))
        ELSE fail(locked)

push_patientlevel_error(fs, patient, env) ==
    LET locked == [fs EXCEPT !.patients[patient].entries = @ \cup {NAMEDLOCK}]
        r == move_patient_folder_fs(locked, "None", patient, "ERROR", env)
    IN  IF NAMEDLOCK \in fs.patients[patient].entries THEN fs
        ELSE IF r.ok THEN remove_patient_folder_fs(r.fs, patient).fs
        ELSE ReleasePatientLock(r.fs, patient, NAMEDLOCK)

check_force_patient_timeout(fs, patient, t, env) ==
    LET f == fs.patients[patient]
        force_action == EffectiveForceAction(f.task.complete_force_action)
        locked == [fs EXCEPT !.patients[patient].entries = @ \cup {LOCK}]
        r == move_patient_folder_fs(locked, f.task.id, patient, "DISCARD", env)
    IN  IF TASKFILE \notin f.entries THEN [fs |-> fs, ok |-> FALSE]
        ELSE IF f.task.creation_time = NoTime THEN [fs |-> fs, ok |-> FALSE]
        ELSE IF t > f.task.creation_time + patient_forcecomplete_trigger
        THEN IF force_action = "ignore" THEN [fs |-> fs, ok |-> TRUE]
             ELSE IF force_action = "proceed"
             THEN [fs |-> [fs EXCEPT !.patients[patient].entries = @ \cup {FORCE_COMPLETE}],
                   ok |-> TRUE]
             ELSE IF force_action = "discard"
             THEN IF LOCK \in f.entries THEN [fs |-> fs, ok |-> FALSE]
                  ELSE IF r.ok THEN remove_patient_folder_fs(r.fs, patient)
                  ELSE [fs |-> ReleasePatientLock(r.fs, patient, LOCK), ok |-> FALSE]
             ELSE [fs |-> fs, ok |-> TRUE]
        ELSE [fs |-> fs, ok |-> TRUE]

\* sorted(patients_ready)
PatientOrder == <<"m1_rP", "m2_rP">>

\* the scan of route_patients: the patients found complete
PatientsReady(fs, t) ==
    {p \in PatientFolders : /\ fs.patients[p].exists
                            /\ ~is_patient_locked(fs.patients[p])
                            /\ is_patient_complete(fs.patients[p], fs.studies, t)}

RECURSIVE PatientScanFrom(_, _, _, _)
PatientScanFrom(fs, i, t, env) ==
    IF i > Len(PatientOrder) THEN fs
    ELSE LET p == PatientOrder[i]
             f == fs.patients[p]
             next == IF ~f.exists \/ is_patient_locked(f) THEN fs
                     ELSE IF is_patient_complete(f, fs.studies, t)
                     THEN [fs EXCEPT !.patients[p] = PersistPatientForce(f)]
                     ELSE check_force_patient_timeout(fs, p, t, env).fs
         IN  PatientScanFrom(next, i + 1, t, env)

RECURSIVE PatientRouteFrom(_, _, _, _, _)
PatientRouteFrom(fs, i, ready, env, terminated) ==
    IF i > Len(PatientOrder) THEN fs
    ELSE LET p == PatientOrder[i]
             r == route_patient(fs, p, env)
             next == IF r.ok THEN r.fs ELSE push_patientlevel_error(r.fs, p, env)
         IN  IF p \notin ready THEN PatientRouteFrom(fs, i + 1, ready, env, terminated)
             ELSE IF StopAfter(terminated) THEN next
             ELSE PatientRouteFrom(next, i + 1, ready, env, terminated)

route_patients(fs, t, env, terminated) ==
    PatientRouteFrom(PatientScanFrom(fs, 1, t, env), 1, PatientsReady(fs, t), env,
                     terminated)

------------------------------------------------------------------------------
(* The router's loop as a state machine *)

PatientAggregate(id, pid, trigger, required, force_action, action) ==
    [exists |-> TRUE, entries |-> {TASKFILE, "U0"},
     task |-> [id |-> id, action |-> action, patient_id |-> pid, creation_time |-> 0,
               last_receive_time |-> 0, complete_trigger |-> trigger,
               required |-> required, complete_force |-> FALSE,
               complete_force_action |-> force_action, received |-> <<"CT">>]]

\* (complete_trigger, required) of the patient tasks
PatientTriggers ==
    {<<"timeout", {}>>, <<"received_studies", {"CT"}>>, <<"received_studies", {"MR"}>>,
     <<"", {}>>}

PatientActions == {"route", "process", ""}

PatientForceActions == {"", "proceed", "discard"}

\* what the file operations of a scan may meet
RouterEnvs ==
    {[mkdirFail |-> FALSE, failed |-> {}], [mkdirFail |-> TRUE, failed |-> {}],
     [mkdirFail |-> FALSE, failed |-> {TASKFILE}]}

\* patients/m2_rP: absent, waiting, or held by another process
SecondPatients ==
    {NoAggregate,
     PatientAggregate("tQ", "m2", "timeout", {}, "", "route"),
     [PatientAggregate("tQ", "m2", "timeout", {}, "", "route")
        EXCEPT !.entries = @ \cup {LOCK}]}

\* studies/s1: absent, a study of patient m1, a study of another patient, or a
\* folder whose task file has not been written yet
FirstStudies ==
    {NoFolder,
     StudyFolder(StudyTask("t1", "U1", "timeout", {}, "", "route", "rS")),
     StudyFolder([StudyTask("t1", "U1", "timeout", {}, "", "route", "rS")
                    EXCEPT !.mrn = "m3"]),
     [StudyFolder(StudyTask("t1", "U1", "timeout", {}, "", "route", "rS"))
        EXCEPT !.files = {"a.dcm", TAGS}]}

NoScan ==
    [op |-> "init", studies |-> [s \in StudyNames |-> NoFolder],
     patients |-> [p \in PatientFolders |-> NoAggregate], spool |-> {},
     ready |-> {}, terminated |-> FALSE,
     env |-> [mkdirFail |-> FALSE, failed |-> {}]]

RouterInit ==
    /\ rnow = 0
    /\ \E first \in FirstStudies, second \in {NoFolder, SecondStudy} :
         /\ second.exists => (first.exists /\ TASKFILE \in first.files
                                /\ first.task.mrn = "m1")
         /\ rstudies = [s \in StudyNames |-> IF s = "s1" THEN first ELSE second]
    /\ \E tc \in PatientTriggers, a \in PatientActions, fa \in PatientForceActions,
          second \in SecondPatients :
         /\ second.exists => (tc[1] = "timeout" /\ fa = "" /\ a \in {"route", ""})
         /\ rpatients = [p \in PatientFolders |->
                           IF p = "m1_rP"
                           THEN PatientAggregate("tP", "m1", tc[1], tc[2], fa, a)
                           ELSE second]
    /\ rspool = {}
    /\ rlast = NoScan

RouterTick ==
    /\ rnow < MaxRouterTime
    /\ rnow' = rnow + 1
    /\ rlast' = [NoScan EXCEPT !.op = "env"]
    /\ UNCHANGED <<rstudies, rpatients, rspool>>
    /\ UNCHANGED nonRouterVars

RouterFs == [studies |-> rstudies, patients |-> rpatients, spool |-> rspool]

\* no series is pending in incoming/
NoIncoming == [x \in SeriesUIDs |-> NoSeries]

Scan(op, ready, env, terminated) ==
    [op |-> op, studies |-> rstudies, patients |-> rpatients, spool |-> rspool,
     ready |-> ready, terminated |-> terminated, env |-> env]

RouterStudies ==
    \E env \in RouterEnvs, terminated \in BOOLEAN :
        LET r == route_studies(RouterFs, {}, NoIncoming, rnow, env, terminated)
            ready == StudiesReady(RouterFs, {}, NoIncoming, rnow)
        IN  /\ terminated => Cardinality(ready) > 1
            /\ rstudies' = r.studies
            /\ rpatients' = r.patients
            /\ rspool' = r.spool
            /\ rlast' = Scan("route_studies", ready, env, terminated)
            /\ UNCHANGED rnow
            /\ UNCHANGED nonRouterVars

RouterPatients ==
    \E env \in RouterEnvs, terminated \in BOOLEAN :
        LET r == route_patients(RouterFs, rnow, env, terminated)
            ready == PatientsReady(RouterFs, rnow)
        IN  /\ terminated => Cardinality(ready) > 1
            /\ rstudies' = r.studies
            /\ rpatients' = r.patients
            /\ rspool' = r.spool
            /\ rlast' = Scan("route_patients", ready, env, terminated)
            /\ UNCHANGED rnow
            /\ UNCHANGED nonRouterVars

RouterNext ==
    \/ RouterTick
    \/ RouterStudies
    \/ RouterPatients
------------------------------------------------------------------------------
(* The task list of the bookkeeper: find_task (bookkeeping/query.py). A row   *)
(* of the tasks table is its id, parent_id, data.info.uid_type, data.info.mrn, *)
(* the PatientID tag of the joined dicom_series row, and its time in minutes. *)

NULL == "null"

QueryTimes == {0, 5, 10, 20}

TaskRow(id, parent_id, uid_type, mrn, tag_patientid, time) ==
    [id |-> id, parent_id |-> parent_id, uid_type |-> uid_type, mrn |-> mrn,
     tag_patientid |-> tag_patientid, time |-> time]

\* the rows the bookkeeper may hold: a patient task, a study task (top-level or
\* a child, with its MRN in the task or only in the series tags), a series task
TaskRows ==
    {TaskRow("P1", NULL, "patient", m, NULL, t) : m \in {"m1", NULL}, t \in QueryTimes}
    \cup {TaskRow("S1", par, "study", m[1], m[2], t) :
            par \in {NULL, "P1"},
            m \in {<<"m1", NULL>>, <<"m2", NULL>>, <<NULL, "m1">>},
            t \in QueryTimes}
    \cup {TaskRow("X1", NULL, "series", "m1", NULL, t) : t \in {0, 10}}
    \cup {TaskRow("X1", NULL, "series", NULL, NULL, 0)}
    \cup {TaskRow("S2", NULL, "study", "m1", NULL, t) : t \in {0, 10}}

\* the tasks that may hold a folder in success/ or error/
FolderIds == {"P1", "S1", "S2"}

\* what the last request was and what it answered: the ids find_task listed, or
\* the task whose logs, results or folder were asked for, the ids holding a
\* folder in success/ or error/, and the task the answer was taken from
NoView ==
    [done |-> FALSE, group_by |-> "", listed |-> {}, op |-> "", task |-> NULL,
     own |-> FALSE, folders |-> {}, answered |-> NULL]

\* SQL COALESCE
COALESCE(a, b) == IF a # NULL THEN a ELSE b

\* SQL =: a comparison with NULL is not true
SqlEq(a, b) == a # NULL /\ b # NULL /\ a = b

\* the NOT EXISTS subquery of the hierarchical view: a patient task with the
\* MRN of the row
PatientTaskExists(row, rows) ==
    \E pt \in rows :
        /\ pt.uid_type = "patient"
        /\ SqlEq(pt.mrn, COALESCE(row.mrn, row.tag_patientid))

\* the WHERE clause of the main query for group_by in "", patient, study
find_task_where(row, rows, group_by) ==
    /\ row.parent_id = NULL
    /\ IF group_by = "patient" THEN row.uid_type = "patient"
       ELSE IF group_by = "study" THEN row.uid_type = "study"
       ELSE \/ row.uid_type = "patient"
            \/ row.uid_type = "study" /\ ~PatientTaskExists(row, rows)

\* find_task without search term, the page holding every row
find_task(rows, group_by) == {row.id : row \in {r \in rows : find_task_where(r, rows, group_by)}}

\* time_start = task_time - timedelta(minutes=10), time_end = task_time +
\* timedelta(minutes=5)
PreWindowMinutes == 10
PostWindowMinutes == 5

\* the WHERE clause of parent_query
parent_query_where(t, row) ==
    /\ t.parent_id = NULL
    /\ t.id # row.id
    /\ SqlEq(COALESCE(t.mrn, t.tag_patientid), COALESCE(row.mrn, row.tag_patientid))
    /\ t.uid_type \in {"patient", "study"}
    /\ t.time >= row.time - PreWindowMinutes
    /\ t.time <= row.time + PostWindowMinutes

\* a plausible slip: the latest task first, whatever its scope
OrderedBefore_TimeOnly(a, b) == a.time > b.time

\* ORDER BY CASE WHEN uid_type = 'patient' THEN 0 ELSE 1 END, t.time DESC
OrderedBefore(a, b) ==
    LET key(t) == IF t.uid_type = "patient" THEN 0 ELSE 1
    IN  key(a) < key(b) \/ (key(a) = key(b) /\ a.time > b.time)

\* the rows a LIMIT n query may return: rows of equal rank come in either order
Limit(cands, n) ==
    {c \in cands : Cardinality({o \in cands : OrderedBefore(o, c)}) < n}

\* the rows that may come first among cands
FirstOfQuery(cands) == {c \in cands : \A o \in cands : ~OrderedBefore(o, c)}

\* "if uid_type == patient or not mrn": no parent is looked for
NoParentLookup(row) ==
    row.uid_type = "patient" \/ COALESCE(row.mrn, row.tag_patientid) = NULL

\* get_task_process_logs, get_task_process_results: the ids the logs or results
\* may be taken from (NULL: an empty answer); own tells whether the task has
\* logs or results of its own
get_task_process_logs(row, rows, own) ==
    IF own THEN {row.id}
    ELSE IF NoParentLookup(row) THEN {NULL}
    ELSE LET first == Limit({t \in rows : parent_query_where(t, row)}, 1)
         IN  IF first = {} THEN {NULL} ELSE {t.id : t \in first}

\* find_output_folder: the ids that may be answered (NULL: exists = false);
\* folders are the ids with a folder in success/ or error/
find_output_folder(row, rows, folders) ==
    IF row.id \in folders THEN {row.id}
    ELSE IF NoParentLookup(row) THEN {NULL}
    ELSE LET found == {t \in Limit({t \in rows : parent_query_where(t, row)}, 10) :
                          t.id \in folders}
         IN  IF found = {} THEN {NULL} ELSE {t.id : t \in FirstOfQuery(found)}

QueryInit ==
    /\ qtasks = {}
    /\ qview = NoView

\* the bookkeeper registers a task
RegisterTask ==
    \E row \in TaskRows :
        /\ \A r \in qtasks : r.id # row.id
        /\ row.parent_id # NULL => \E r \in qtasks : r.id = row.parent_id
        /\ qtasks' = qtasks \cup {row}
        /\ qview' = NoView
        /\ UNCHANGED nonQueryVars

\* a request reads the tables and changes nothing: one request is followed per
\* content of the tables
FindTask ==
    \E group_by \in {"", "patient", "study"} :
        /\ qview = NoView
        /\ qview' = [NoView EXCEPT !.done = TRUE, !.group_by = group_by,
                                   !.listed = find_task(qtasks, group_by),
                                   !.op = "find_task"]
        /\ UNCHANGED qtasks
        /\ UNCHANGED nonQueryVars

\* GET /task_process_logs and GET /task_process_results for a registered task
GetTaskProcessLogs ==
    \E row \in qtasks, own \in BOOLEAN,
       op \in {"get_task_process_logs", "get_task_process_results"} :
        \E id \in get_task_process_logs(row, qtasks, own) :
            /\ qview = NoView
            /\ own => op = "get_task_process_logs"
            /\ qview' = [NoView EXCEPT !.op = op, !.task = row.id, !.own = own,
                                       !.answered = id]
            /\ UNCHANGED qtasks
            /\ UNCHANGED nonQueryVars

\* GET /find_task for a registered task
FindOutputFolder ==
    \E row \in qtasks, folders \in SUBSET FolderIds :
        \E id \in find_output_folder(row, qtasks, folders) :
            /\ qview = NoView
            /\ qview' = [NoView EXCEPT !.op = "find_output_folder", !.task = row.id,
                                       !.own = row.id \in folders, !.folders = folders,
                                       !.answered = id]
            /\ UNCHANGED qtasks
            /\ UNCHANGED nonQueryVars

QueryNext == RegisterTask \/ FindTask \/ GetTaskProcessLogs \/ FindOutputFolder
------------------------------------------------------------------------------
(* The LRU cache of the web interface (webinterface/api.py, LRUCache).      *)
(* Every public method runs its whole body under self.lock, so a call of    *)
(* any thread is one step. The OrderedDict is a sequence of slots, the      *)
(* oldest position first.                                                   *)

max_size == 2
max_age_seconds == 1
MaxCacheTime == 3

CacheKeys == 1..(max_size + 1)
CacheValues == {"v1", "v2"}
CacheThreads == {"t1", "t2"}

\* {'value': value, 'timestamp': time.time()}
Entry(value, t) == [value |-> value, timestamp |-> t]

Slot(key, entry) == [key |-> key, entry |-> entry]

CacheKeysOf(c) == {c[i].key : i \in 1..Len(c)}

\* self.cache[key]
CacheItem(c, key) == c[CHOOSE i \in 1..Len(c) : c[i].key = key].entry

\* del self.cache[key]
CacheDel(c, key) == SelectSeq(c, LAMBDA s : s.key # key)

\* self.cache[key] = entry: an existing key keeps its position, a new one goes last
CacheAssign(c, key, entry) ==
    IF key \in CacheKeysOf(c)
    THEN [i \in 1..Len(c) |-> IF c[i].key = key THEN Slot(key, entry) ELSE c[i]]
    ELSE Append(c, Slot(key, entry))

move_to_end_Stays(c, key) == c

\* self.cache.move_to_end(key)
move_to_end(c, key) == Append(CacheDel(c, key), Slot(key, CacheItem(c, key)))

popitem_Keeps(c) == c

\* self.cache.popitem(last=False)
popitem(c) == Tail(c)

is_expired_Never(entry, t) == FALSE

\* LRUCache._is_expired, with time.time() = t
is_expired(entry, t) == (t - entry.timestamp) > max_age_seconds

\* LRUCache._cleanup_expired
cleanup_expired(c, t) == SelectSeq(c, LAMBDA s : ~is_expired(s.entry, t))

\* LRUCache.get: the cache it leaves and the value it returns
get(c, key, t) ==
    IF key \in CacheKeysOf(c)
    THEN IF is_expired(CacheItem(c, key), t)
         THEN [cache |-> CacheDel(c, key), ret |-> NULL]
         ELSE [cache |-> move_to_end(c, key), ret |-> CacheItem(c, key).value]
    ELSE [cache |-> c, ret |-> NULL]

\* LRUCache.set
set(c, key, value, t) ==
    LET entry == Entry(value, t) IN
    IF key \in CacheKeysOf(c)
    THEN move_to_end(CacheAssign(c, key, entry), key)
    ELSE LET cleaned == cleanup_expired(c, t)
             room == IF Len(cleaned) >= max_size THEN popitem(cleaned) ELSE cleaned
         IN CacheAssign(room, key, entry)

\* LRUCache.clear
clear(c) == <<>>

(* History: what the callers did, kept apart from the OrderedDict. *)
NoSet == [value |-> NULL, at |-> NoTime]

NoUses == [last_set |-> [k \in CacheKeys |-> NoSet], order |-> <<>>]

NoCall ==
    [op |-> "", thread |-> "", key |-> 0, value |-> NULL, ret |-> NULL,
     before |-> <<>>, at |-> 0]

\* the key was used: it becomes the most recently used one
Used(order, key) == Append(SelectSeq(order, LAMBDA k : k # key), key)

CacheInit ==
    /\ ctime = 0
    /\ cache = <<>>
    /\ cuses = NoUses
    /\ clast = NoCall

CacheTick ==
    /\ ctime < MaxCacheTime
    /\ ctime' = ctime + 1
    /\ UNCHANGED <<cache, cuses, clast>>
    /\ UNCHANGED nonCacheVars

CacheGet ==
    \E thread \in CacheThreads, key \in CacheKeys :
        LET r == get(cache, key, ctime) IN
        /\ cache' = r.cache
        /\ cuses' = IF r.ret # NULL
                    THEN [cuses EXCEPT !.order = Used(@, key)]
                    ELSE cuses
        /\ clast' = [op |-> "get", thread |-> thread, key |-> key, value |-> NULL,
                     ret |-> r.ret, before |-> cache, at |-> ctime]
        /\ UNCHANGED ctime
        /\ UNCHANGED nonCacheVars

CacheSet ==
    \E thread \in CacheThreads, key \in CacheKeys, value \in CacheValues :
        /\ cache' = set(cache, key, value, ctime)
        /\ cuses' = [cuses EXCEPT !.last_set[key] = [value |-> value, at |-> ctime],
                                  !.order = Used(@, key)]
        /\ clast' = [op |-> "set", thread |-> thread, key |-> key, value |-> value,
                     ret |-> NULL, before |-> cache, at |-> ctime]
        /\ UNCHANGED ctime
        /\ UNCHANGED nonCacheVars

CacheClear ==
    \E thread \in CacheThreads :
        /\ cache' = clear(cache)
        /\ clast' = [op |-> "clear", thread |-> thread, key |-> 0, value |-> NULL,
                     ret |-> NULL, before |-> cache, at |-> ctime]
        /\ UNCHANGED <<ctime, cuses>>
        /\ UNCHANGED nonCacheVars

CacheNext == CacheTick \/ CacheGet \/ CacheSet \/ CacheClear

------------------------------------------------------------------------------
(* Specifications *)

vars ==
    <<studyVars, procVars, lockVars, pipeVars, jobVars, moveVars, routerVars, queryVars,
      cacheVars>>

StudyIdle ==
    /\ now = 0
    /\ studies = [s \in StudyNames |-> NoFolder]
    /\ incoming = [x \in SeriesUIDs |-> NoSeries]
    /\ patients = [p \in PatientNames |-> NoPatient]
    /\ spool = {}
    /\ last = NoLast

ProcIdle ==
    /\ clock = 0
    /\ processing = [u \in UnitIds |-> NoUnit]
    /\ docker_pull_throttle = [tag \in ThrottleKeys |-> NoTime]
    /\ pulls = [tag \in PulledImages |-> <<>>]
    /\ results = [u \in UnitIds |-> NoOutcome]
    /\ runs = [u \in UnitIds |-> <<>>]

LockIdle ==
    /\ pfolder = NoPatientFolder
    /\ pdest = {}
    /\ pcRoute = "idle"
    /\ pcPush = PushIdle
    /\ outcome = [u \in PushedStudies |-> "waiting"]
    /\ lost = {}

PipeIdle ==
    /\ uplaces = {}
    /\ utask = [task |-> NoStudyTask, scope |-> "", rule_action |-> "missing",
                dispatch |-> FALSE, as_received |-> FALSE, fail_stage |-> ""]
    /\ umove = NoMove
    /\ restarts = 0

JobIdle ==
    /\ jobs = [st \in JobStages |-> NoJob]
    /\ jdb = FALSE
    /\ jlast = NoRequest

MoveIdle ==
    /\ mpc = [kind |-> "", at |-> "done", rule_ok |-> TRUE, todo |-> {}, all |-> {}]
    /\ msrc = [exists |-> FALSE, files |-> {}]
    /\ mdst = [exists |-> FALSE, files |-> {}]
    /\ mpicked = NoPick

RouterIdle ==
    /\ rnow = 0
    /\ rstudies = [s \in StudyNames |-> NoFolder]
    /\ rpatients = [p \in PatientFolders |-> NoAggregate]
    /\ rspool = {}
    /\ rlast = NoScan

QueryIdle ==
    /\ qtasks = {}
    /\ qview = NoView

CacheIdle ==
    /\ ctime = 0
    /\ cache = <<>>
    /\ cuses = NoUses
    /\ clast = NoCall

\* the study aggregator
Init == StudyInit /\ ProcIdle /\ LockIdle /\ PipeIdle /\ JobIdle /\ MoveIdle /\ RouterIdle
    /\ QueryIdle /\ CacheIdle

Next == StudyNext

Spec == Init /\ [][Next]_vars

\* the processor
InitProc == ProcInit /\ StudyIdle /\ LockIdle /\ PipeIdle /\ JobIdle /\ MoveIdle /\ RouterIdle
    /\ QueryIdle /\ CacheIdle

NextProc == ProcNext

SpecProc == InitProc /\ [][NextProc]_vars

\* the study aggregator and the patient aggregator working on one patient folder
InitLock == LockInit /\ StudyIdle /\ ProcIdle /\ PipeIdle /\ JobIdle /\ MoveIdle /\ RouterIdle
    /\ QueryIdle /\ CacheIdle

NextLock == LockNext

SpecLock == InitLock /\ [][NextLock]_vars

\* one unit on its way through the spool
InitPipe == PipeInit /\ StudyIdle /\ ProcIdle /\ LockIdle /\ JobIdle /\ MoveIdle /\ RouterIdle
    /\ QueryIdle /\ CacheIdle

NextPipe == PipeNext

SpecPipe == InitPipe /\ [][NextPipe]_vars

\* the restart and delete requests of the web interface on one job
InitJob == JobInit /\ StudyIdle /\ ProcIdle /\ LockIdle /\ PipeIdle /\ MoveIdle /\ RouterIdle
    /\ QueryIdle /\ CacheIdle

NextJob == JobNext

SpecJob == InitJob /\ [][NextJob]_vars

\* a processing folder being populated while the processor scans
InitMove == MoveInit /\ StudyIdle /\ ProcIdle /\ LockIdle /\ PipeIdle /\ JobIdle /\ RouterIdle
    /\ QueryIdle /\ CacheIdle

NextMove == MoveNext

SpecMove == InitMove /\ [][NextMove]_vars

\* the router's loop: route_studies, then route_patients
InitRouter ==
    /\ RouterInit /\ StudyIdle /\ ProcIdle /\ LockIdle /\ PipeIdle /\ JobIdle
    /\ MoveIdle /\ QueryIdle /\ CacheIdle

NextRouter == RouterNext

SpecRouter == InitRouter /\ [][NextRouter]_vars

\* the bookkeeper's task list
InitQuery ==
    /\ QueryInit /\ StudyIdle /\ ProcIdle /\ LockIdle /\ PipeIdle /\ JobIdle
    /\ MoveIdle /\ RouterIdle /\ CacheIdle

NextQuery == QueryNext

SpecQuery == InitQuery /\ [][NextQuery]_vars

\* the cache of the web interface, called from the request threads
InitCache ==
    /\ CacheInit /\ StudyIdle /\ ProcIdle /\ LockIdle /\ PipeIdle /\ JobIdle
    /\ MoveIdle /\ RouterIdle /\ QueryIdle

NextCache == CacheNext

SpecCache == InitCache /\ [][NextCache]_vars
------------------------------------------------------------------------------
(* Properties of the study aggregator *)

Scanned == last.op = "route_studies"

\* the folders the aggregator created from study folder s
SpoolOf(s) == {r \in spool : r.src = s}

\* no file of study folder s was routed to processing/, outgoing/, success/ or patients/
NotRouted(s, task) ==
    /\ \A r \in SpoolOf(s) : r.stage \notin {"processing", "outgoing", "success"}
    /\ \A p \in PatientNames : patients[p].sub[task.study_uid] \cap DcmFiles = {}

HasPendingSeries(task) ==
    \E x \in Pending : incoming[x].tags /\ incoming[x].study_uid = task.study_uid

C1_Case(s) ==
    /\ Scanned
    /\ last.pre[s].exists
    /\ TASKFILE \in last.pre[s].files
    /\ last.pre[s].task.complete_trigger = "timeout"
    /\ ~last.pre[s].task.complete_force
    /\ FORCE_COMPLETE \notin last.pre[s].files
    /\ HasPendingSeries(last.pre[s].task)

\* C1: a timeout-triggered study that is not force-completed is not complete, and
\* is not routed by the scan, while a pending series in incoming/ carries its
\* StudyInstanceUID, however long ago the last series was received.
C1_PendingSeriesBlocksCompletion ==
    \A s \in StudyNames :
        C1_Case(s) => /\ ~last.complete[s]
                      /\ NotRouted(s, last.pre[s].task)

C1_Witness ==
    /\ C1_Case("s1")
    /\ now > last.pre["s1"].task.last_receive_time + study_complete_trigger
    /\ studies["s1"].exists

\* C8 as stated: complete iff the marker or complete_force is set, or the trigger
\* is timeout with now - last_receive_time >= study_complete_trigger and no
\* pending series of the study, or the trigger is received_series with a
\* non-empty requirement that parse_completion_series accepts.
C8_Claimed(f, pending, inc, t) ==
    \/ FORCE_COMPLETE \in f.files
    \/ f.task.complete_force
    \/ /\ f.task.complete_trigger = "timeout"
       /\ f.task.last_receive_time # NoTime
       /\ t - f.task.last_receive_time >= study_complete_trigger
       /\ \A x \in pending : inc[x].study_uid # f.task.study_uid
    \/ /\ f.task.complete_trigger = "received_series"
       /\ f.task.required # {}
       /\ parse_completion_series(f.task.required, f.task.received_series)

C8_AsStated ==
    Scanned =>
        \A s \in StudyNames :
            (last.pre[s].exists /\ TASKFILE \in last.pre[s].files) =>
                last.complete[s] = C8_Claimed(last.pre[s], Pending, incoming, now)

C8_Complete(f, pending, inc, t) ==
    \/ FORCE_COMPLETE \in f.files
    \/ f.task.complete_force
    \/ /\ \/ f.task.complete_trigger = "timeout"
          \/ f.task.complete_trigger = "received_series" /\ f.task.required = {}
       /\ f.task.last_receive_time # NoTime
       /\ t - f.task.last_receive_time > study_complete_trigger
       /\ \A x \in pending : inc[x].tags /\ inc[x].study_uid # f.task.study_uid
    \/ /\ f.task.complete_trigger = "received_series"
       /\ f.task.required # {}
       /\ parse_completion_series(f.task.required, f.task.received_series)

\* C8 (amended): for a study folder with a readable task.json, is_study_complete
\* is true iff (a) the marker or complete_force is set, or (b) the trigger is
\* timeout, or received_series with an empty requirement, and strictly more than
\* study_complete_trigger seconds passed since last_receive_time and every pending
\* series has a tags file and none carries the study's UID, or (c) the trigger is
\* received_series with a non-empty requirement that parse_completion_series accepts.
C8_CompletionPredicate ==
    Scanned =>
        \A s \in StudyNames :
            (last.pre[s].exists /\ TASKFILE \in last.pre[s].files) =>
                last.complete[s] = C8_Complete(last.pre[s], Pending, incoming, now)

C8_Witness ==
    /\ Scanned
    /\ last.pre["s1"].task.complete_trigger = "received_series"
    /\ last.pre["s1"].task.required = {}
    /\ FORCE_COMPLETE \notin last.pre["s1"].files
    /\ last.complete["s1"]
    /\ "s1" \in last.handled


NonLockFiles(f) == {x \in f.files : ~EndsWithLock(x)}

StudyLevel(task) == rules[task.applied_rule] # "patient"

\* C9 as stated: the folder each action routes a complete study to
C9_ClaimedFolder(action) ==
    CASE action = "route" -> "outgoing"
      [] action \in {"process", "both"} -> "processing"
      [] action = "notification" -> "success"
      [] OTHER -> "discard"

C9_AsStated ==
    Scanned =>
        \A s \in last.handled :
            StudyLevel(last.pre[s].task) =>
                /\ ~studies[s].exists
                /\ \E r \in SpoolOf(s) :
                        /\ r.stage = C9_ClaimedFolder(last.pre[s].task.action)
                        /\ r.files = NonLockFiles(last.pre[s])

\* C9 (amended): a complete, unlocked study-level study handled by a scan has files
\* moved only to <folder>/<task id>, where folder is outgoing for route,
\* processing for process and both, success for notification, and whenever such a
\* folder was created studies/<folder> no longer exists; a notification study is
\* removed from studies/ in every case. A study with action discard is not moved
\* to discard/: route_study fails and the study is pushed to error/, or stays in
\* studies/ when that push fails too. A failed route of the other actions likewise
\* ends in error/ or leaves the study in studies/.
C9_EmissionByAction ==
    Scanned =>
        \A s \in last.handled :
            StudyLevel(last.pre[s].task) =>
                LET task == last.pre[s].task
                    dest == C9_ClaimedFolder(task.action)
                IN  /\ SpoolOf(s) # {} => ~studies[s].exists
                    /\ task.action \in {"route", "process", "both", "notification"} =>
                          /\ \A r \in SpoolOf(s) :
                                \/ r.stage = dest /\ r.name = task.id
                                     /\ r.files \subseteq NonLockFiles(last.pre[s])
                                \/ r.stage = "error"
                          /\ (\A r \in SpoolOf(s) : r.stage # dest) =>
                                \/ \E r \in SpoolOf(s) : r.stage = "error"
                                \/ studies[s].exists
                                \/ task.action = "notification"
                    /\ task.action = "notification" => ~studies[s].exists
                    /\ task.action = "discard" =>
                          /\ \A r \in SpoolOf(s) : r.stage = "error"
                          /\ SpoolOf(s) = {} => studies[s].exists

C9_Witness ==
    /\ Scanned
    /\ "s1" \in last.handled
    /\ last.pre["s1"].task.action = "discard"
    /\ StudyLevel(last.pre["s1"].task)
    /\ \E r \in SpoolOf("s1") : r.stage = "error"
    /\ "s2" \in last.handled
    /\ \E r \in SpoolOf("s2") : r.stage = "outgoing"

C10_Case(s) ==
    /\ Scanned
    /\ last.pre[s].exists
    /\ ~is_study_locked(last.pre[s])
    /\ TASKFILE \in last.pre[s].files
    /\ ~last.complete[s]
    /\ last.pre[s].task.complete_force_action \in {"", "ignore"}
    /\ now - last.pre[s].task.creation_time >= study_forcecomplete_trigger

\* C10 as stated: with action ignore (or unset) the study is treated as complete
\* and routed once the force timeout has passed.
C10_AsStated ==
    \A s \in StudyNames :
        C10_Case(s) => /\ ~studies[s].exists
                       /\ SpoolOf(s) # {}

\* C10 (amended): an unlocked, incomplete study whose force timeout has passed and
\* whose complete_force_action is ignore or unset is left as it was by the scan:
\* it stays in studies/ with the same files and task, no marker is created and
\* nothing of it is routed.
C10_IgnoreLeavesStudy ==
    \A s \in StudyNames :
        C10_Case(s) => /\ studies[s] = last.pre[s]
                       /\ SpoolOf(s) = {}
                       /\ NotRouted(s, last.pre[s].task)

C10_Witness ==
    /\ C10_Case("s1")
    /\ now - last.pre["s1"].task.creation_time > study_forcecomplete_trigger
    /\ last.pre["s1"].task.complete_force_action = ""


\* the studies the scan found ready, computed from what it observed
ReadyBefore ==
    StudiesReady([studies |-> last.pre, patients |-> patients, spool |-> {}],
                 Pending, incoming, now)

\* study s was waiting unlocked with a task file, not complete, past the force
\* timeout, when the scan started
ForceTimeoutCase(s, action) ==
    /\ Scanned
    /\ last.pre[s].exists
    /\ ~is_study_locked(last.pre[s])
    /\ TASKFILE \in last.pre[s].files
    /\ ~last.complete[s]
    /\ last.pre[s].task.creation_time # NoTime
    /\ now > last.pre[s].task.creation_time + study_forcecomplete_trigger
    /\ last.pre[s].task.complete_force_action = action

\* study s carried the .complete_force marker in an unlocked folder when the scan
\* started
C11_MarkedCase(s) ==
    /\ Scanned
    /\ last.pre[s].exists
    /\ ~is_study_locked(last.pre[s])
    /\ TASKFILE \in last.pre[s].files
    /\ FORCE_COMPLETE \in last.pre[s].files

\* C11: a scan that finds a study incomplete, past the force timeout, with
\* complete_force_action = proceed writes .complete_force and does not route the
\* study; a scan that finds the marker in an unlocked folder finds the study
\* complete whatever its trigger, elapsed time or pending series, calls route_study
\* on it (unless the scan is cut short by termination before reaching it), and a
\* study folder that is still there afterwards has complete_force persisted.
C11_ProceedCompletesNextScan ==
    \A s \in StudyNames :
        /\ ForceTimeoutCase(s, "proceed") =>
              /\ studies[s].exists
              /\ FORCE_COMPLETE \in studies[s].files
              /\ studies[s].files \ {FORCE_COMPLETE} = last.pre[s].files
              /\ SpoolOf(s) = {}
              /\ NotRouted(s, last.pre[s].task)
        /\ C11_MarkedCase(s) =>
              /\ last.complete[s]
              /\ s \in ReadyBefore
              /\ s \in last.handled \/ last.handled # ReadyBefore
              /\ s \in last.handled =>
                    \/ ~studies[s].exists
                    \/ studies[s].task.complete_force

\* the marker of a proceed study past its force timeout is found by a scan, with a
\* trigger that is not met and a series of the study still pending, and the study
\* goes to processing/
C11_Witness ==
    /\ C11_MarkedCase("s1")
    /\ last.pre["s1"].task.complete_force_action = "proceed"
    /\ ~last.pre["s1"].task.complete_force
    /\ last.pre["s1"].task.complete_trigger = "received_series"
    /\ ~parse_completion_series(last.pre["s1"].task.required,
                                last.pre["s1"].task.received_series)
    /\ HasPendingSeries(last.pre["s1"].task)
    /\ now > last.pre["s1"].task.creation_time + study_forcecomplete_trigger
    /\ \E r \in SpoolOf("s1") : r.stage = "processing"

C12_Case(s) == ForceTimeoutCase(s, "discard")

FolderShapes ==
    {[exists |-> TRUE, files |-> fs, entries |-> fs] :
        fs \in SUBSET {LOCK, PROCESSING, TASKFILE, "a.dcm"}}

Owned(f) == LOCK \in f.files \/ PROCESSING \in f.files

C20_Case(s) ==
    /\ Scanned
    /\ s \in last.handled
    /\ last.pre[s].task.applied_rule \in DOMAIN rules
    /\ rules[last.pre[s].task.applied_rule] = "patient"
    /\ last.pre[s].task.action # ""
    /\ last.pre[s].task.mrn \notin {"", "MISSING"}
    /\ LOCK \in patients[PatientFolderName(last.pre[s].task.mrn,
                                           last.pre[s].task.applied_rule)].files

\* C20: a lock conflict is transient. When the patient folder a complete study is
\* to be pushed to is locked, the study is left in studies/ as it was, to be
\* retried by a later scan; it is not moved to error/.
C20_LockConflictTransient ==
    \A s \in StudyNames :
        C20_Case(s) =>
            /\ studies[s] = last.pre[s]
            /\ \A r \in SpoolOf(s) : r.stage # "error"

\* C21: every folder the study aggregator creates in processing/, outgoing/,
\* success/, error/ or discard/ is named by the id of the task it contains,
\* folders pushed to error/ after a routing failure included.
C21_NamedByTaskId ==
    \A r \in spool : TASKFILE \in r.files => r.name = r.task.id

PatientLevel(task) ==
    task.applied_rule \in DOMAIN rules /\ rules[task.applied_rule] = "patient"

\* the scan pushed the patient-level study s to its patient folder and removed it
\* from studies/: route_study returned true
C23_Pushed(s) ==
    /\ Scanned
    /\ s \in last.handled
    /\ ~is_study_locked(last.pre[s])
    /\ PatientLevel(last.pre[s].task)
    /\ ~studies[s].exists
    /\ SpoolOf(s) = {}

C28_Arrived(s, task) ==
    UNION {r.files : r \in SpoolOf(s)}
        \cup UNION {patients[p].sub[task.study_uid] : p \in PatientNames}

\* route_study removed study folder s from studies/ in the scan
C28_Removed(s) ==
    /\ Scanned
    /\ last.pre[s].exists
    /\ TASKFILE \in last.pre[s].files
    /\ ~studies[s].exists
    /\ \A r \in SpoolOf(s) : r.stage \in {"processing", "outgoing", "success"}

\* C28: the study aggregator removes a study folder from studies/ only after every
\* non-lock file of it has reached the destination (processing/, outgoing/,
\* success/ or, but for the study's own task file, a patient folder): when the
\* destination cannot be created or the move of a file fails, the files that were
\* not moved are not deleted.
C28_RemovedOnlyWhenMoved ==
    \A s \in StudyNames :
        C28_Removed(s) =>
            LET pre == last.pre[s]
                kept == IF PatientLevel(pre.task) THEN {TASKFILE} ELSE {}
            IN  NonLockFiles(pre) \ kept \subseteq C28_Arrived(s, pre.task)
------------------------------------------------------------------------------
(* Properties of the processor *)

\* the docker_runtime calls made for the units processed so far
Calls == UNION {SeqToSet(runs[u]) : u \in UnitIds}

\* C2: for a module whose settings require a signature and whose verification
\* fails, docker_runtime starts no container other than the signature verifier,
\* neither before nor after the verification step.
C2_OnlyVerifierRuns ==
    \A c \in Calls :
        (c.require_signature /\ c.verification = "failed") =>
            SeqToSet(c.containers) \subseteq {"verifier"}

\* the folder C5 expects the unit in
C5_Folder(res) ==
    IF ~res.success THEN "error"
    ELSE IF res.task.dispatch THEN "outgoing" ELSE "success"

\* C5: after process_series the unit is no longer in processing/ and is in exactly
\* one place: outgoing/<id> after success with a dispatch section, success/<id>
\* after success without one, error/<id> with fail_stage = processing after any
\* failure.
C5_ExactlyOnePlace ==
    \A u \in UnitIds :
        results[u].done =>
            /\ ~processing[u].exists
            /\ Cardinality(results[u].placed) = 1
            /\ \A p \in results[u].placed :
                  /\ p.stage = C5_Folder(results[u])
                  /\ p.name = u
                  /\ ~results[u].success => p.fail_stage = "processing"

\* C6: when all N modules of a module list succeed, the final out/result.json is
\* the list of N (module_name, module_output) entries in declared order, whether
\* or not a module wrote a result.json of its own.
C6_ResultListsEveryModule ==
    \A u \in UnitIds :
        (results[u].done /\ results[u].success /\ results[u].task.is_list) =>
            /\ results[u].placed # {}
            /\ \A p \in results[u].placed :
                  /\ p.result = "list"
                  /\ Len(p.dumped) = Len(results[u].task.process)
                  /\ \A i \in 1..Len(p.dumped) :
                        p.dumped[i][1] = results[u].task.process[i].module_name

C6_Witness ==
    /\ results["u1"].done /\ results["u1"].success /\ results["u1"].task.is_list
    /\ Len(results["u1"].task.process) = 2
    /\ \E p \in results["u1"].placed :
          p.dumped[1][2] = "None" /\ p.dumped[2][2] = "json"

\* C7: no two registry pulls of one image tag are initiated less than 3600
\* seconds apart, whether the earlier pull succeeded or failed.
C7_PullThrottle ==
    \A tag \in ImageTags :
        \A i, j \in 1..Len(pulls[tag]) :
            i < j => Seconds(pulls[tag][j].at) - Seconds(pulls[tag][i].at) >= PullThrottleSeconds

C7_Witness ==
    \E tag \in ImageTags :
        /\ Len(pulls[tag]) >= 2
        /\ pulls[tag][1].outcome # "ok"
        /\ \E c \in Calls : c.docker_tag = tag /\ "module" \in SeqToSet(c.containers)
        /\ Cardinality({u \in UnitIds : results[u].done}) = 2


\* the containers of a call that run the module's image
OfModuleImage(c) == SeqToSet(c.containers) \cap {"probe", "module"}

\* C25: root execution only with support_root_modules = true. When it is false,
\* docker_runtime starts no container of the module image without the invoker's
\* UID:GID, and for a module that requires root (declared in its settings or
\* found to carry an app manifest) it starts no container of the image at all.
C25_RootOnlyIfSupported ==
    \A c \in Calls :
        ~c.support_root_modules =>
            /\ c.unmapped \cap OfModuleImage(c) = {}
            /\ c.requires_root => OfModuleImage(c) = {}

\* C27: process_series called on a folder that already holds .processing returns
\* without any effect on the folder: no .lock is created, the folder is not moved
\* to error/ and not deleted, and no ERROR event is sent.
C27_TakenUnitUntouched ==
    \A u \in UnitIds :
        (results[u].done /\ PROCESSING \in results[u].found) =>
            /\ processing[u].exists
            /\ processing[u].files = results[u].found
            /\ results[u].placed = {}
            /\ \A i \in 1..Len(results[u].events) : results[u].events[i].event # "ERROR"

\* process_series ran the pipeline of unit u
C30_Case(u) ==
    /\ results[u].done
    /\ results[u].task.is_list
    /\ TASKFILE \in results[u].found
    /\ PROCESSING \notin results[u].found

ModuleStarts(call) == Len(SelectSeq(call.containers, LAMBDA c : c = "module"))

\* C30: in a pipeline the calls of docker_runtime follow the configured steps in
\* order, one call per step and at most one module container per call; every call
\* but the last succeeded, so nothing is started after a failed step; and when a
\* step failed the unit is out of processing/ and in error/.
C30_StopsAtFailedModule ==
    \A u \in UnitIds :
        C30_Case(u) =>
            LET calls == runs[u]
                process == results[u].task.process
            IN  /\ Len(calls) <= Len(process)
                /\ \A i \in 1..Len(calls) :
                      /\ calls[i].module_name = process[i].module_name
                      /\ calls[i].docker_tag = process[i].docker_tag
                      /\ ModuleStarts(calls[i]) <= 1
                      /\ i < Len(calls) => calls[i].ok = "true"
                /\ (\E i \in 1..Len(calls) : calls[i].ok # "true") =>
                      /\ ~results[u].success
                      /\ ~processing[u].exists
                      /\ results[u].placed # {}
                      /\ \A p \in results[u].placed : p.stage = "error" /\ p.whole

C30_Witness ==
    /\ C30_Case("u1")
    /\ Len(results["u1"].task.process) = 2
    /\ Len(runs["u1"]) = 1
    /\ runs["u1"][1].ok = "false"
    /\ ModuleStarts(runs["u1"][1]) = 1
    /\ \E p \in results["u1"].placed : p.stage = "error"

\* C31: in a pipeline, when step i+1 starts, in/ holds what step i left in out/
\* (its result.json removed) and a task.json narrowed to step i+1, out/ is empty,
\* and nothing of the previous in/ is left; after the last step nothing is rotated
\* and the folder that is moved out holds the last step's output in out/.
C31_RotationBetweenSteps ==
    \A u \in UnitIds :
        C30_Case(u) =>
            LET calls == runs[u]
                process == results[u].task.process
            IN  /\ \A i \in 2..Len(calls) :
                      /\ calls[i].in = [exists |-> TRUE,
                                        files |-> {ModuleOutput(process[i - 1].module_name),
                                                   TASKFILE}]
                      /\ calls[i].narrowed = i
                      /\ calls[i].out = EmptyDir
                      /\ calls[i].result = "none"
                /\ results[u].success =>
                      /\ Len(calls) = Len(process)
                      /\ \A p \in results[u].placed :
                            /\ p.out.exists
                            /\ p.out.files \ {TASKFILE} =
                                  {ModuleOutput(process[Len(process)].module_name)}
                            /\ ~p.in.exists

C31_Witness ==
    /\ C30_Case("u1")
    /\ results["u1"].success
    /\ Len(runs["u1"]) = 2
    /\ runs["u1"][1].module_name # runs["u1"][2].module_name
    /\ runs["u1"][1].in.files \cap DcmFiles # {}
    /\ runs["u1"][2].in.files \cap DcmFiles = {}
    /\ results["u1"].placed # {}

\* process_series started the first module container of unit u
C32_Case(u) ==
    /\ results[u].done
    /\ runs[u] # <<>>
    /\ ModuleRan(runs[u][1])

\* C32: every DICOM file counted in the PROCESS_BEGIN file count of a unit is in
\* in/ when the first module container starts, also for a unit from patients/,
\* whose DICOM files lie in per-study subfolders.
C32_CountedFilesAreInput ==
    \A u \in UnitIds :
        C32_Case(u) =>
            /\ rglob_dcm(results[u].found) \subseteq runs[u][1].in.files
            /\ results[u].file_count_begin = Cardinality(runs[u][1].in.files \cap rglob_dcm(results[u].found))

\* C33: the folder process_series leaves in outgoing/, success/ or error/ holds
\* neither .lock nor .processing.
C33_NoMarkersLeft ==
    \A u \in UnitIds :
        results[u].done =>
            \A p \in results[u].placed :
                p.stage \in {"outgoing", "success", "error"} =>
                    p.markers \cap {LOCK, PROCESSING} = {}

\* C34: the lock file docker_runtime creates in the persistence folder of a
\* module with requires_persistence is gone when docker_runtime is left, whatever
\* the way out.
C34_PersistenceLockRemoved ==
    \A u \in UnitIds :
        \A i \in 1..Len(runs[u]) :
            runs[u][i].requires_persistence => ~runs[u][i].persistence_lock_file

\* C36: the helper image busybox:stable-musl is pulled at most once per 86400
\* seconds: no two pulls of it are less than 86400 seconds apart.
C36_HelperPullThrottle ==
    \A i, j \in 1..Len(pulls[HelperImage]) :
        i < j => Seconds(pulls[HelperImage][j].at) - Seconds(pulls[HelperImage][i].at)
                    >= HelperPullSeconds

EventsOf(u, kinds) ==
    {i \in 1..Len(results[u].events) : results[u].events[i].event \in kinds}

\* the unit was moved to success/ or outgoing/
C35_Succeeded(u) ==
    \E p \in results[u].placed : p.stage \in {"success", "outgoing"}

------------------------------------------------------------------------------
(* Properties of the lock protocol *)

\* route_patient holds its lock and has not yet removed the folder
RouteOwns == pcRoute \in {"locked", "moved"}

\* push_studylevel_patient holds its lock
PushOwns == pcPush.at \in {"locked", "tasked", "added"}

\* C3: while route_patient is moving and removing a patient folder no other
\* component acts on it: the lock it took is seen by the lock check of the others,
\* push_studylevel_patient holds no lock on the folder at the same time, and no
\* study is added to a folder that is then deleted.
C3_ExclusiveOwnership ==
    /\ RouteOwns /\ pfolder.exists => is_patient_locked(pfolder)
    /\ ~(RouteOwns /\ PushOwns)
    /\ lost = {}

------------------------------------------------------------------------------
(* Properties of the pipeline order *)

RestartOperations == {"restart_job", "reprocess_with_settings"}

\* the last move took the unit to another folder
UnitMoved == umove.from # umove.to

\* the unit was moved to an earlier stage
MovedBackward == UnitMoved /\ StageRank(umove.to) < StageRank(umove.from)

\* error/ -> outgoing/ for a dispatch failure, error/ -> processing/ for a
\* processing failure
RestartOfFailedStage ==
    /\ umove.by \in RestartOperations
    /\ umove.from = "error"
    /\ \/ umove.to = "outgoing" /\ umove.fail_stage = "dispatching"
       \/ umove.to = "processing" /\ umove.fail_stage = "processing"

------------------------------------------------------------------------------
(* Properties of the restart and delete requests *)

\* restart_job called restart_dispatch on error/<id>
DispatchRestart ==
    /\ jlast.op = "restart_job"
    /\ jlast.shape = "dispatching"

HasStatus(f) ==
    /\ TASKFILE \in f.files
    /\ f.task.dispatch.present
    /\ f.task.dispatch.has_status

C13_Case ==
    /\ DispatchRestart
    /\ LOCK \notin jlast.pre["error"].files
    /\ HasStatus(jlast.pre["error"])

\* C13 as stated: every per-target entry of dispatch.status has its retries and
\* next_retry_at reset, fail_stage is null and the folder is in outgoing/ without
\* .lock, with nothing left in error/.
C13_AsStated ==
    C13_Case =>
        /\ ~jobs["error"].exists
        /\ jobs["outgoing"].exists
        /\ LOCK \notin jobs["outgoing"].files
        /\ jobs["outgoing"].task.fail_stage = "null"
        /\ \A g \in Targets :
              /\ jobs["outgoing"].task.dispatch.status[g].retries = "null"
              /\ jobs["outgoing"].task.dispatch.status[g].next_retry_at = "null"

\* the folder can be restarted as a dispatch job
C13_Restartable(f) ==
    /\ f.files \cap {LOCK, ERROR, PROCESSING} = {}
    /\ HasStatus(f)
    /\ f.task.action \in {"", "route", "both"}

\* C13 (amended): restart_dispatch on error/<id> that holds none of .lock, .error
\* and .processing and whose task.json has action route, both or none and a
\* dispatch.status map sets retries and next_retry_at of the dispatch object itself
\* to null, leaves every entry of dispatch.status as it was, sets info.fail_stage to
\* null and moves the folder to outgoing/<id>, leaving no .lock on it and no folder
\* in error/. When outgoing/<id> already exists the move raises after the task file
\* was rewritten: the folder stays in error/ and holds .lock. A folder with one of
\* the markers or with another action is refused and left as it was.
C13_ResetsDispatchObject ==
    DispatchRestart /\ TASKFILE \in jlast.pre["error"].files
                    /\ jlast.pre["error"].task.dispatch.present
                    /\ jlast.pre["error"].task.dispatch.has_status =>
        LET f == jlast.pre["error"]
            written == [f.task EXCEPT !.dispatch.retries = "null",
                                      !.dispatch.next_retry_at = "null",
                                      !.fail_stage = "null"]
        IN  IF ~C13_Restartable(f) THEN jobs = jlast.pre
            ELSE IF jlast.pre["outgoing"].exists
            THEN /\ jobs["error"] = [f EXCEPT !.files = @ \cup {LOCK}, !.task = written]
                 /\ jobs["outgoing"] = jlast.pre["outgoing"]
                 /\ jlast.code = 500
            ELSE /\ ~jobs["error"].exists
                 /\ jobs["outgoing"] = [f EXCEPT !.task = written]
                 /\ LOCK \notin jobs["outgoing"].files
                 /\ jobs["outgoing"].task.dispatch.status = f.task.dispatch.status

C13_Witness ==
    /\ C13_Case
    /\ ~jobs["error"].exists
    /\ jobs["outgoing"].exists
    /\ jlast.pre["error"].task.dispatch.retries = "3"
    /\ jobs["outgoing"].task.dispatch.retries = "null"
    /\ jobs["outgoing"].task.dispatch.status["tB"].retries = "3"
    /\ jobs["outgoing"].task.fail_stage = "null"

\* a restart request on a job that failed in dispatching
C14_Case ==
    /\ jlast.op \in {"restart_job", "reprocess_with_settings"}
    /\ jlast.pre["error"].exists
    /\ jlast.pre["error"].task.fail_stage = "dispatching"
    /\ jlast.pre["error"].task.dispatch.has_status

\* C14: restarting a dispatch-failed task leaves the entry of every target that
\* had succeeded exactly as it was: in outgoing/<id>/task.json, and in whichever
\* folder the request left the job, those targets are still marked complete.
C14_SucceededTargetsKept ==
    C14_Case =>
        \A g \in Targets :
            jlast.pre["error"].task.dispatch.status[g].state = "complete" =>
                /\ jobs["error"].exists =>
                      jobs["error"].task.dispatch.status[g]
                          = jlast.pre["error"].task.dispatch.status[g]
                /\ ~jlast.pre["outgoing"].exists /\ jobs["outgoing"].exists =>
                      jobs["outgoing"].task.dispatch.status[g]
                          = jlast.pre["error"].task.dispatch.status[g]
                /\ jlast.shape = "processing" /\ jlast.body = "success" =>
                      jobs["processing"].task.dispatch.status[g]
                          = jlast.pre["error"].task.dispatch.status[g]
                /\ jlast.shape = "dispatching" /\ jlast.body = "success" =>
                      /\ jobs["outgoing"].task.dispatch.status[g] = Completed
                      /\ \E h \in Targets :
                            jobs["outgoing"].task.dispatch.status[h].state # "complete"

C14_Witness ==
    /\ C14_Case
    /\ DispatchRestart
    /\ jlast.body = "success"
    /\ jlast.pre["error"].task.dispatch.status["tA"] = Completed
    /\ jobs["outgoing"].task.dispatch.status["tA"] = Completed
    /\ jobs["outgoing"].task.dispatch.status["tB"] = Exhausted

\* a request that asks for a processing restart of error/<id>
ProcessingRestart ==
    \/ jlast.op = "reprocess_with_settings"
    \/ jlast.op = "restart_job" /\ jlast.shape = "processing"

RestartSucceeded == ProcessingRestart /\ jlast.body = "success"

C16_ShapeFromFailStage ==
    jlast.op = "restart_job" /\ jlast.pre["error"].exists
                             /\ task_file(jlast.pre["error"]) # "none" =>
        LET f == jlast.pre["error"]
        IN  /\ f.task.fail_stage = "processing" /\ f.as_received.exists =>
                  jlast.shape = "processing"
            /\ f.task.fail_stage \notin {"processing", "dispatching"} =>
                  /\ jlast.code >= 400
                  /\ jobs = jlast.pre
            /\ f.task.fail_stage = "dispatching" /\ C13_Restartable(f)
                  /\ ~jlast.pre["outgoing"].exists =>
                  /\ jlast.shape = "dispatching"
                  /\ jobs["outgoing"].exists
                  /\ ~jobs["error"].exists

\* delete_job found the folder of the category it was asked for
DeleteFound ==
    /\ jlast.op = "delete_job"
    /\ jlast.category \in DOMAIN folder_map
    /\ jlast.pre[folder_map[jlast.category]].exists

Marked(f) == f.files \cap {LOCK, PROCESSING} # {}

\* C17: delete_job without force never deletes a job folder that holds .processing
\* (whether the marker is fresh or older than five minutes) or .lock: it answers
\* 409 and leaves the folders and the bookkeeper as they were; with force the folder
\* is deleted.
C17_DeleteRespectsMarkers ==
    DeleteFound /\ Marked(jlast.pre[folder_map[jlast.category]]) =>
        IF ~jlast.force
        THEN /\ jlast.code = 409
             /\ jobs = jlast.pre
             /\ jdb = jlast.predb
        ELSE \/ /\ jlast.code = 200
                /\ ~jobs[folder_map[jlast.category]].exists
                /\ \A st \in JobStages \ {folder_map[jlast.category]} :
                      jobs[st] = jlast.pre[st]
             \/ /\ jlast.env.fault = "rmtree"
                /\ jlast.code = 500
                /\ jobs = jlast.pre

C17_Witness ==
    /\ DeleteFound
    /\ jlast.category = "processing"
    /\ PROCESSING \in jlast.pre["processing"].files
    /\ jlast.age > 300
    /\ ~jlast.force
    /\ jlast.code = 409
    /\ jobs["processing"].exists
    /\ jdb

\* the answers restart_processing_task gives after it created processing/<id>
C29_LateErrors ==
    {"NO_RULE_APPLIED", "Rule not found", "Invalid rule action",
     "Failed to generate task file", "Failed to restart task"}

\* C29: when restart_processing_task answers with an error after it created
\* processing/<id> (no applied rule, rule not configured, rule action neither
\* process nor both, task file not generated, or an exception), the spool is as
\* it was before the call: error/<id> is intact and no processing/<id> remains.
C29_FailedRestartLeavesNothing ==
    (jlast.op = "restart_job" /\ jlast.shape = "processing" /\ jlast.body \in C29_LateErrors) =>
        /\ jobs["error"] = jlast.pre["error"]
        /\ jobs["processing"] = jlast.pre["processing"]
        /\ jobs = jlast.pre
------------------------------------------------------------------------------
(* Properties of a processing folder being populated *)

\* every file of the unit, task.json included, is in the folder
Populated(files) == mpc.all \subseteq files

\* C19: while a folder of processing/ is populated by move_study_folder,
\* move_patient_folder or a processing restart, the processor never picks it up
\* partially: a folder that holds a DICOM file and no .lock holds every file and
\* task.json, what the processor picked up was complete, and the source lock and
\* the source folder are only removed once the destination lock is released.
C19_NeverPickedPartially ==
    /\ mpicked.done => Populated(mpicked.files)
    /\ mdst.exists /\ mdst.files \cap DcmFiles # {} /\ LOCK \notin mdst.files =>
          Populated(mdst.files)
    /\ ~msrc.exists \/ (mpc.kind \in Movers /\ NAMEDLOCK \notin msrc.files) =>
          LOCK \notin mdst.files
------------------------------------------------------------------------------
(* Properties of the router's loop (SpecRouter) *)

PatientsScanned == rlast.op = "route_patients"

StudiesScanned == rlast.op = "route_studies"

\* the folders a scan created from unit u
CreatedFrom(u) == {r \in rspool \ rlast.spool : r.src = u}

\* patient p was waiting unlocked with a timeout trigger and no forced completion
\* when route_patients started
C22_Case(p) ==
    /\ PatientsScanned
    /\ rlast.patients[p].exists
    /\ ~is_patient_locked(rlast.patients[p])
    /\ rlast.patients[p].task.complete_trigger = "timeout"
    /\ ~rlast.patients[p].task.complete_force
    /\ FORCE_COMPLETE \notin rlast.patients[p].entries

\* a study folder of studies/ holds a task of the patient
C22_StudyWaiting(p) ==
    \E s \in StudyNames :
        /\ rlast.studies[s].exists
        /\ TASKFILE \in rlast.studies[s].files
        /\ rlast.studies[s].task.mrn = rlast.patients[p].task.patient_id

\* C22: a patient with trigger timeout that is not force-completed is found
\* complete by route_patients exactly when the time since its last_receive_time
\* exceeds patient_complete_trigger and no study folder in studies/ holds a task
\* whose mrn is the patient's id. While such a study is there the patient is not
\* routed, however long ago the last study was received.
C22_WaitsForPendingStudies ==
    \A p \in PatientFolders :
        C22_Case(p) =>
            /\ p \in rlast.ready <=>
                  /\ rlast.patients[p].task.last_receive_time # NoTime
                  /\ rnow > rlast.patients[p].task.last_receive_time
                              + patient_complete_trigger
                  /\ ~C22_StudyWaiting(p)
            /\ C22_StudyWaiting(p) =>
                  \A r \in CreatedFrom(p) :
                      r.stage \notin {"processing", "outgoing", "success", "error"}
            /\ p \in rlast.ready /\ rlast.terminated = FALSE => CreatedFrom(p) # {}
                  \/ rlast.env.mkdirFail

\* the timeout of patient m1 elapsed long ago, a study of m1 is still in studies/,
\* and the scan left the patient where it was
C22_Witness ==
    /\ C22_Case("m1_rP")
    /\ C22_StudyWaiting("m1_rP")
    /\ rnow = MaxRouterTime
    /\ rnow > rlast.patients["m1_rP"].task.last_receive_time + patient_complete_trigger
    /\ rpatients["m1_rP"] = rlast.patients["m1_rP"]
    /\ rlast.patients["m1_rP"].task.action = "route"

\* the first of the ready units in the order the loop takes them
FirstOf(order, ready) ==
    CHOOSE u \in ready :
        \A i, j \in 1..Len(order) : (order[i] = u /\ order[j] \in ready) => i <= j

\* unit u, whose entries were pre, ended on one side: in one new folder with all
\* its entries but the lock files (and but those whose move raised) and gone
\* from its source, or still at its source with nothing of it anywhere else
C24_Finished(u, pre, gone, same) ==
    \/ /\ gone
       /\ Cardinality(CreatedFrom(u)) = 1
       /\ \A r \in CreatedFrom(u) :
             r.files = {e \in pre : ~EndsWithLock(e)} \ rlast.env.failed
    \/ /\ same
       /\ CreatedFrom(u) = {}
       /\ rlast.env.mkdirFail

C24_StudiesCase ==
    /\ StudiesScanned
    /\ rlast.terminated
    /\ ~rstudies["s1"].exists
    /\ \E r \in CreatedFrom("s1") : r.stage = "outgoing"
    /\ rstudies["s2"] = rlast.studies["s2"]
    /\ rstudies["s2"].exists
------------------------------------------------------------------------------
(* Properties of the task list (SpecQuery) *)

RowMrn(row) == COALESCE(row.mrn, row.tag_patientid)

\* a patient task with the MRN of the study task lies in the window
C26_PatientInWindow(row) ==
    \E pt \in qtasks :
        /\ pt.uid_type = "patient"
        /\ SqlEq(pt.mrn, RowMrn(row))
        /\ pt.time >= row.time - PreWindowMinutes
        /\ pt.time <= row.time + PostWindowMinutes

\* C26: in the hierarchical task view (group_by empty) every top-level patient
\* task is listed, and a top-level study task is listed if and only if no patient
\* task with the same MRN has its time between 10 minutes before and 5 minutes
\* after the time of the study task.
C26_HierarchicalView ==
    (qview.done /\ qview.group_by = "") =>
        \A row \in qtasks :
            row.parent_id = NULL =>
                /\ row.uid_type = "patient" => row.id \in qview.listed
                /\ row.uid_type = "study" =>
                      (row.id \in qview.listed <=> ~C26_PatientInWindow(row))

\* a request for the logs, the results or the folder of a task that has none of
\* its own
C37_Lookup ==
    /\ qview.op \in {"get_task_process_logs", "get_task_process_results",
                     "find_output_folder"}
    /\ ~qview.own

C37_Task == CHOOSE row \in qtasks : row.id = qview.task

\* a top-level patient or study task other than row with the MRN of row and its
\* time between 10 minutes before and 5 minutes after the time of row
C37_Candidate(t, row) ==
    /\ t.parent_id = NULL
    /\ t.id # row.id
    /\ t.uid_type \in {"patient", "study"}
    /\ RowMrn(t) # NULL
    /\ RowMrn(t) = RowMrn(row)
    /\ t.time >= row.time - 10
    /\ t.time <= row.time + 5

\* a patient task before a study task, then the later one
C37_Preferred(o, t) ==
    \/ o.uid_type = "patient" /\ t.uid_type # "patient"
    \/ o.uid_type = t.uid_type /\ o.time > t.time

\* the answer is the empty one when the task is a patient task, has no MRN or has
\* no candidate in cands, and otherwise a candidate no other is preferred to
C37_Answer(cands) ==
    IF C37_Task.uid_type = "patient" \/ RowMrn(C37_Task) = NULL \/ cands = {}
    THEN qview.answered = NULL
    ELSE \E t \in cands :
            /\ t.id = qview.answered
            /\ \A o \in cands : ~C37_Preferred(o, t)

\* C37 as stated: the fallback parent of the three requests is the preferred one
\* of the candidates.
C37_FallbackParent ==
    C37_Lookup => C37_Answer({t \in qtasks : C37_Candidate(t, C37_Task)})

\* C37, amended: for the logs and the results the fallback parent is the
\* preferred one of the candidates; for find_output_folder it is the preferred one
\* of the candidates that hold a folder in success/ or error/.
C37_FallbackParentWithFolder ==
    C37_Lookup =>
        C37_Answer({t \in qtasks :
                      /\ C37_Candidate(t, C37_Task)
                      /\ qview.op = "find_output_folder" => t.id \in qview.folders})

C37_Witness ==
    /\ C37_Lookup
    /\ qview.op = "find_output_folder"
    /\ qview.task = "X1"
    /\ qview.answered = "S2"
    /\ \E t \in qtasks : t.id = "P1" /\ C37_Candidate(t, C37_Task)
    /\ \E t \in qtasks : t.id = "S1" /\ C37_Candidate(t, C37_Task) /\ t.time < 10
------------------------------------------------------------------------------
(* Properties of the LRU cache (SpecCache) *)

\* the keys the cache held when the last call began
C39_Before == CacheKeysOf(clast.before)

\* the key of C39_Before that was used (successful get, or set) longest ago
C39_LeastRecentlyUsed ==
    CHOOSE k \in C39_Before :
        \A o \in C39_Before \ {k} :
            \E i, j \in 1..Len(cuses.order) :
                /\ cuses.order[i] = k
                /\ cuses.order[j] = o
                /\ i < j

\* C38: after any sequence of get, set and clear calls, from any number of
\* threads, the cache holds at most max_size entries.
C38_SizeBound == Len(cache) <= max_size

C38_Witness ==
    /\ clast.op = "set"
    /\ clast.thread = "t2"
    /\ clast.key \notin C39_Before
    /\ Len(clast.before) = max_size
    /\ \E i \in 1..Len(clast.before) : clast.before[i].entry.timestamp = clast.at
    /\ Len(cache) = max_size

\* set inserted a new key into a full cache none of whose entries had expired
C39_Case ==
    /\ clast.op = "set"
    /\ clast.key \notin C39_Before
    /\ Len(clast.before) >= max_size
    /\ \A k \in C39_Before : clast.at - cuses.last_set[k].at <= max_age_seconds

\* C39: when set inserts a new key into a cache that is full and has no expired
\* entry, exactly one entry is evicted, the least recently used one (a use is a
\* successful get or a set of that key); every other entry is retained with its
\* value.
C39_EvictsLeastRecentlyUsed ==
    C39_Case =>
        /\ CacheKeysOf(cache) = (C39_Before \ {C39_LeastRecentlyUsed}) \cup {clast.key}
        /\ Len(cache) = Cardinality(CacheKeysOf(cache))
        /\ \A k \in C39_Before \ {C39_LeastRecentlyUsed} :
               \E i \in 1..Len(cache), j \in 1..Len(clast.before) :
                   /\ cache[i].key = k
                   /\ clast.before[j].key = k
                   /\ cache[i].entry = clast.before[j].entry
                   /\ cache[i].entry.value = cuses.last_set[k].value

\* the evicted entry was set later than an entry that stays: the one that stays
\* was read in between
C39_Witness ==
    /\ C39_Case
    /\ C39_LeastRecentlyUsed \notin CacheKeysOf(cache)
    /\ \E k \in C39_Before \ {C39_LeastRecentlyUsed} :
           /\ k \in CacheKeysOf(cache)
           /\ cuses.last_set[k].at < cuses.last_set[C39_LeastRecentlyUsed].at

\* C40: get(key) never returns a value that was set more than max_age_seconds
\* ago; for such an entry it returns None and removes the entry; a get hit does
\* not extend the entry's lifetime; a set of an existing key replaces the value
\* and restarts its lifetime.
C40_Expiry ==
    /\ (clast.op = "get" /\ clast.ret # NULL) =>
           /\ clast.ret = cuses.last_set[clast.key].value
           /\ clast.at - cuses.last_set[clast.key].at <= max_age_seconds
           /\ \E i \in 1..Len(cache) :
                  /\ cache[i].key = clast.key
                  /\ cache[i].entry.timestamp = cuses.last_set[clast.key].at
    /\ (/\ clast.op = "get"
        /\ clast.key \in C39_Before
        /\ clast.at - cuses.last_set[clast.key].at > max_age_seconds) =>
           /\ clast.ret = NULL
           /\ clast.key \notin CacheKeysOf(cache)
    /\ (clast.op = "set" /\ clast.key \in C39_Before) =>
           \E i \in 1..Len(cache) :
               /\ cache[i].key = clast.key
               /\ cache[i].entry = [value |-> clast.value, timestamp |-> clast.at]

\* an entry read successfully earlier is read again after its time and is gone
C40_Witness ==
    /\ clast.op = "get"
    /\ clast.key \in C39_Before
    /\ clast.ret = NULL
    /\ clast.key \notin CacheKeysOf(cache)
    /\ clast.at - cuses.last_set[clast.key].at > max_age_seconds
    /\ \E i \in 1..Len(cuses.order) : cuses.order[i] = clast.key /\ i > 1
============================================================================
